---- MODULE Spec2Model ----
(***************************************************************************)
(* Dynamic Mount Service (trilio-dms).                                     *)
(*                                                                         *)
(* New generation: the server-side mount ledger (services/mount_service.py,*)
(* services/reconciliation.py), the NFS and S3 drivers (drivers/nfs.py,    *)
(* drivers/s3.py), the node dispatcher and its consume loop                *)
(* (messaging/rabbitmq.py, server/dms_server.py).                          *)
(* Legacy generation: the client that owns the ledger (client.py), its     *)
(* file lock (lock_manager.py), the server (server.py) and its process     *)
(* manager (s3vaultfuse_manager.py).                                       *)
(*                                                                         *)
(* Each handler is one action: the dispatcher consumes one message at a    *)
(* time and runs the whole handler before it takes the next one; SpecMq    *)
(* alone splits _on_request into its steps, because a signal handler runs  *)
(* between them.  The kernel mount table, the job table, the child         *)
(* processes and the outcome of every external command are the             *)
(* environment: inputs drawn with \E or changed by environment actions.    *)
(*                                                                         *)
(* Spec: dispatcher, MountService and Reconciler on an NFS target.         *)
(* SpecLock: users of the file lock.  SpecS3: the S3 driver, MountService  *)
(* and startup on an S3 target.  SpecLegacy: legacy client, server and     *)
(* process manager on an S3 target.  SpecMq: the node's queue, the consume *)
(* loop and signals.  SpecCtx: MountContext and batch_mount_context, with  *)
(* the client's answers as inputs.  SpecRef: MountService called directly, *)
(* with the record of who holds a mount.  SpecNodes: the server and the    *)
(* Reconciler beside another node writing its rows.  SpecPidDir: the       *)
(* legacy manager's startup scan of the PID directory.  SpecNfs: the NFS   *)
(* driver called directly; SpecDrivers: the NFS and S3 drivers called      *)
(* directly.  SpecRace: MountService.mount and a reconcile run of another  *)
(* process, statement by statement.                                        *)
(* Every specification starts from the same Init and moves only its own    *)
(* part of the state.                                                      *)
(*                                                                         *)
(* drivers/nfs.py (signal, line 162) and drivers/s3.py (threading, line    *)
(* 78; signal, line 428) use standard modules they do not import.  Read    *)
(* with those names unbound, S3Driver.__init__ raises and no MountService  *)
(* can be constructed, so the program has no behaviour at all; the model   *)
(* reads the names as the standard modules.  MountService._is_mounted and  *)
(* _reconcile_target call s3_driver.is_mounted, which S3Driver does not    *)
(* define: that call raises AttributeError in a running server and is      *)
(* modelled as such.                                                       *)
(***************************************************************************)
EXTENDS Integers, Sequences, FiniteSets, TLC

\* ---------------------------------------------------------------- bounds
NumJobs == 2
MaxRows == 2
MaxStack == 2
NumProcs == 3
MaxPolls == 2
MaxPid == 2
MaxQueue == 2         \* messages waiting in the node's queue
MaxTags == 3          \* deliveries the broker makes to the consumer
MaxPrefetch == 2      \* largest prefetch_count a configuration sets
MaxTargets == 3       \* longest target list given to batch_mount_context

\* ------------------------------------------------------------- constants
Jobs == 1..NumJobs
NodeId == "self"
OtherNode == "other"
TargetIds == {"t1"}
UnknownTarget == "nx"
Procs == 1..NumProcs
ServerPid == NumProcs + 1     \* the dispatcher process, never a lock user

VARIABLES
    ledger,     \* backup_target_mount_ledger: sequence of rows, index = id
    job,        \* job table: jobid -> [status, deleted]
    kmounts,    \* /proc/mounts per target mount path: stack of accessible flags
    evt,        \* what the last handled message / reconcile run did and replied
    flockOwner, \* lock users whose open file description holds the flock
    pc,         \* lock users: position inside acquire_lock
    polls,      \* lock users: failed non-blocking attempts so far
    cl,         \* lock users: what the client call under the lock did
    up,         \* the server process is running
    alive,      \* pids of the live s3vaultfuse children
    nextPid,    \* the pid the next spawned child gets
    pidfile,    \* <pidfile_dir>/<target>.pid: the pid written in it, NoPid = no file
    fuse,       \* the s3 mount path: not in /proc/mounts, accessible, or stale
    mount_processes, \* MountService's S3Driver.mount_processes: target -> pid
    recon_processes, \* ReconciliationService's S3Driver.mount_processes
    reaper,     \* the reaper thread of MountService's S3Driver: starting, looping, ended
    sres,       \* what the last s3 operation saw and returned
    processes,  \* legacy S3VaultFuseManager.processes: target -> pid
    rpc,        \* legacy client request: where it is, what the client does
    lres,       \* what the legacy server did with the last message
    cres,       \* what the last legacy client call returned
    conn,       \* RabbitMQServer.connection: open or closed
    consuming,  \* RabbitMQServer.consuming
    phase,      \* where _on_request is with the current delivery
    cur,        \* the current delivery and what has been done for it
    fin,        \* the last delivery that left _on_request
    broker,     \* the node's queue, the deliveries prefetched from it, their order
    ctx,        \* a MountContext (client.py) in use: position, calls issued
    batch,      \* a batch_mount_context in use: position, contexts, calls issued
    hist,       \* MountService requests so far: who holds a mount, driver failures
    piddir,     \* the PID directory a starting S3VaultFuseManager finds, and what it loads
    drv,        \* the last call made on NFSDriver directly: inputs, commands run, result
    race        \* a mount request and a reconcile run in progress at once: where each is, what each has read

s3Vars == <<up, alive, nextPid, pidfile, fuse, mount_processes,
            recon_processes, reaper, sres>>
legacyVars == <<processes, rpc, lres, cres>>
mqVars == <<conn, consuming, phase, cur, fin, broker>>
ctxVars == <<ctx, batch>>
vars == <<ledger, job, kmounts, evt, flockOwner, pc, polls, cl, s3Vars,
          legacyVars, mqVars, ctxVars, hist, piddir, drv, race>>
svcVars == <<ledger, job, kmounts, evt>>
lockVars == <<flockOwner, pc, polls, cl>>
\* what the ledger service leaves alone, what the lock users leave alone
nonSvcVars == <<lockVars, s3Vars, legacyVars, mqVars, ctxVars, hist, piddir, drv, race>>
nonLockVars == <<svcVars, s3Vars, legacyVars, mqVars, ctxVars, hist, piddir, drv, race>>
\* what the s3 operations leave alone besides the ledger
nonS3Vars == <<job, kmounts, evt, lockVars, legacyVars, mqVars, ctxVars, hist, piddir, drv, race>>
\* what the legacy server and client leave alone
nonLegacyVars == <<job, kmounts, evt, lockVars, mount_processes,
                   recon_processes, reaper, sres, mqVars, ctxVars, hist, piddir, drv, race>>
\* what the consume loop leaves alone
nonMqVars == <<svcVars, lockVars, s3Vars, legacyVars, ctxVars, hist, piddir, drv, race>>
\* what the context managers leave alone
nonCtxVars == <<svcVars, lockVars, s3Vars, legacyVars, mqVars, hist, piddir, drv, race>>
\* what a MountService call leaves alone besides the job table
nonRefVars == <<evt, lockVars, s3Vars, legacyVars, mqVars, ctxVars, piddir, drv, race>>

\* ------------------------------------------------------------ job table
ActiveStatuses == {"STARTING", "RUNNING"}

JobActive(jt, j) == jt[j].status \in ActiveStatuses /\ jt[j].deleted = FALSE

\* ---------------------------------------------------------------- ledger
NewLedgerRow(j, t) ==
    [jobid |-> j, backup_target_id |-> t, host |-> NodeId,
     mounted |-> FALSE, deleted |-> FALSE]

RowIds(l) == 1..Len(l)

\* filter_by(backup_target_id, jobid, host, deleted=False)
FindActive(l, j, t) ==
    {i \in RowIds(l) : /\ l[i].backup_target_id = t
                       /\ l[i].jobid = j
                       /\ l[i].host = NodeId
                       /\ l[i].deleted = FALSE}

\* filter_by(backup_target_id, host, deleted=False)
ActiveRows(l, t) ==
    {i \in RowIds(l) : /\ l[i].backup_target_id = t
                       /\ l[i].host = NodeId
                       /\ l[i].deleted = FALSE}

\* mutant: the host filter is missing
HostRowsAnyHost(l, t) ==
    {i \in RowIds(l) : l[i].backup_target_id = t}

\* filter_by(backup_target_id, host): soft-deleted rows included
HostRows(l, t) ==
    {i \in RowIds(l) : l[i].backup_target_id = t /\ l[i].host = NodeId}

\* the count of Job rows whose jobid is among the non-deleted ledger rows
ComputeActiveCount(l, jt, t) ==
    Cardinality({j \in Jobs : /\ \E i \in ActiveRows(l, t) : l[i].jobid = j
                              /\ JobActive(jt, j)})

SetMounted(l, ids, v) ==
    [i \in RowIds(l) |-> IF i \in ids THEN [l[i] EXCEPT !.mounted = v] ELSE l[i]]

SoftDelete(l, ids) ==
    [i \in RowIds(l) |-> IF i \in ids THEN [l[i] EXCEPT !.deleted = TRUE] ELSE l[i]]

\* ------------------------------------------------------ NFS mount driver
MountPath(t) == "/mnt/" \o t

\* entry in /proc/mounts and the directory answers stat + listdir in time
IsMounted(km) == Len(km) > 0 /\ km[Len(km)]

MountRcs == {"ok", "fail"}

\* mutant: the mount command runs whether the path is mounted or not
NFSMountAlways(km, rc) ==
    IF rc = "ok"
    THEN [ret |-> TRUE, km |-> Append(km, TRUE)]
    ELSE [ret |-> FALSE, km |-> km]

\* NFSDriver.mount: the return value and the mount table afterwards
NFSMount(km, rc) ==
    IF IsMounted(km)
    THEN [ret |-> TRUE, km |-> km]
    ELSE IF rc = "ok"
         THEN [ret |-> TRUE, km |-> Append(km, TRUE)]
         ELSE [ret |-> FALSE, km |-> km]

Pop(km) == SubSeq(km, 1, Len(km) - 1)

\* the results of the umount commands of one NFSDriver.unmount call, in the
\* order they are run: plain umount, lazy umount, force-lazy after a timeout
UmountRuns ==
    {<<"ok">>, <<"fail", "ok">>, <<"fail", "fail">>}
    \cup {<<"timeout", f>> : f \in {"ok", "fail", "raise"}}
    \cup {<<"fail", "timeout", f>> : f \in {"ok", "fail", "raise"}}

\* the except TimeoutExpired branch: umount -f -l, its exit status ignored
ForceUnmount(km, f) ==
    IF f = "ok" THEN [ret |-> TRUE, km |-> Pop(km)]
    ELSE IF f = "fail" THEN [ret |-> TRUE, km |-> km]
    ELSE [ret |-> FALSE, km |-> km]

\* the runs the requests of the model draw from: one per outcome of
\* NFSDriver.unmount (unmounted, failed, reported done but still mounted)
ServiceUmountRuns == {<<"ok">>, <<"fail", "fail">>, <<"timeout", "fail">>}

\* NFSDriver.unmount
NFSUnmount(km, run) ==
    IF ~IsMounted(km) THEN [ret |-> TRUE, km |-> km]
    ELSE IF run[1] = "ok" THEN [ret |-> TRUE, km |-> Pop(km)]
    ELSE IF run[1] = "timeout" THEN ForceUnmount(km, run[2])
    ELSE IF run[2] = "ok" THEN [ret |-> TRUE, km |-> Pop(km)]
    ELSE IF run[2] = "timeout" THEN ForceUnmount(km, run[3])
    ELSE [ret |-> FALSE, km |-> km]

\* ---------------------------------------------------------- MountService
NoPath == "none"

\* mutant: mounts whenever some job is active
MountBranchAnyActive(active_count, mounted) ==
    IF active_count >= 1 /\ ~mounted THEN "mount"
    ELSE IF active_count > 1 THEN "reuse"
    ELSE "none"

\* the branch taken after the insert (mount_service.py lines 92 and 103)
MountBranch(active_count, mounted) ==
    IF active_count = 1 /\ ~mounted THEN "mount"
    ELSE IF active_count > 1 THEN "reuse"
    ELSE "none"

\* MountService._perform_mount for an nfs target: raises when the driver
\* returns False
PerformMount(km, rc) ==
    LET d == NFSMount(km, rc)
    IN  [raised |-> ~d.ret, km |-> d.km]

\* MountService._perform_unmount for an nfs target
PerformUnmount(km, run) ==
    LET d == NFSUnmount(km, run)
    IN  [raised |-> ~d.ret, km |-> d.km]

\* MountService.mount: the committed ledger, the mount table and the response
Mount(l, jt, kms, j, t, rc) ==
    IF t \notin TargetIds
    THEN [ledger |-> l, kmounts |-> kms, success |-> FALSE,
          message |-> "Target not found", mount_path |-> NoPath,
          calls |-> {}]
    ELSE IF FindActive(l, j, t) # {}
    THEN [ledger |-> l, kmounts |-> kms, success |-> TRUE,
          message |-> "Mount already exists for job", mount_path |-> MountPath(t),
          calls |-> {}]
    ELSE
      LET l1 == Append(l, NewLedgerRow(j, t))      \* add + commit (line 83)
          active_count == ComputeActiveCount(l1, jt, t)
          branch == MountBranch(active_count, IsMounted(kms[t]))
          pm == PerformMount(kms[t], rc)
      IN  IF branch = "mount"
          THEN IF pm.raised
               THEN \* except Exception: rollback of an empty transaction
                    [ledger |-> l1, kmounts |-> [kms EXCEPT ![t] = pm.km],
                     success |-> FALSE, message |-> "Failed to mount",
                     mount_path |-> NoPath, calls |-> {"mount"}]
               ELSE [ledger |-> SetMounted(l1, ActiveRows(l1, t), TRUE),
                     kmounts |-> [kms EXCEPT ![t] = pm.km],
                     success |-> TRUE, message |-> "Mount ready for job",
                     mount_path |-> MountPath(t), calls |-> {"mount"}]
          ELSE IF branch = "reuse"
          THEN [ledger |-> SetMounted(l1, {Len(l1)}, TRUE), kmounts |-> kms,
                success |-> TRUE, message |-> "Mount ready for job",
                mount_path |-> MountPath(t), calls |-> {}]
          ELSE [ledger |-> l1, kmounts |-> kms,
                success |-> TRUE, message |-> "Mount ready for job",
                mount_path |-> MountPath(t), calls |-> {}]

\* the test before the driver unmount (mount_service.py lines 152-154)
UnmountBranch(active_count, target_exists, mounted) ==
    active_count = 0 /\ target_exists /\ mounted

\* MountService.unmount
Unmount(l, jt, kms, j, t, run) ==
    LET l1 == SoftDelete(l, FindActive(l, j, t))   \* deleted=True + commit
        active_count == ComputeActiveCount(l1, jt, t)
        exists == t \in TargetIds
        doit == UnmountBranch(active_count, exists,
                              IF exists THEN IsMounted(kms[t]) ELSE FALSE)
    IN  IF ~doit
        THEN [ledger |-> l1, kmounts |-> kms, success |-> TRUE,
              message |-> "Unmount processed for job", mount_path |-> NoPath,
              calls |-> {}]
        ELSE LET pu == PerformUnmount(kms[t], run)
             IN  IF pu.raised
                 THEN [ledger |-> l1, kmounts |-> [kms EXCEPT ![t] = pu.km],
                       success |-> FALSE, message |-> "Failed to unmount",
                       mount_path |-> NoPath, calls |-> {"unmount"}]
                 ELSE [ledger |-> SetMounted(l1, HostRows(l1, t), FALSE),
                       kmounts |-> [kms EXCEPT ![t] = pu.km],
                       success |-> TRUE, message |-> "Unmount processed for job",
                       mount_path |-> NoPath, calls |-> {"unmount"}]

\* ----------------------------------------------------------- Reconciler
\* mutant: the adopt branch is taken whenever the target has active jobs
ReconcileBranchAdoptsActive(active_count, is_mounted) ==
    IF active_count > 0 THEN "adopt"
    ELSE IF is_mounted THEN "unmount"
    ELSE "none"

\* the four cases of _reconcile_target, reconciliation.py 172-206
ReconcileBranch(active_count, is_mounted) ==
    IF active_count > 0 /\ ~is_mounted THEN "mark_unmounted"
    ELSE IF active_count = 0 /\ is_mounted THEN "unmount"
    ELSE IF is_mounted THEN "adopt"
    ELSE "none"

\* ReconciliationService._reconcile_target for an nfs target
ReconcileTarget(l, jt, kms, t, run) ==
    LET active_count == ComputeActiveCount(l, jt, t)
        is_mounted == IsMounted(kms[t])
        pu == PerformUnmount(kms[t], run)
        branch == ReconcileBranch(active_count, is_mounted)
    IN  IF branch = "mark_unmounted"
        THEN [ledger |-> SetMounted(l, ActiveRows(l, t), FALSE),
              kmounts |-> kms, calls |-> {}]
        ELSE IF branch = "unmount"
        THEN IF pu.raised
             THEN [ledger |-> l, kmounts |-> [kms EXCEPT ![t] = pu.km],
                   calls |-> {"unmount"}]
             ELSE [ledger |-> SetMounted(l, HostRows(l, t), FALSE),
                   kmounts |-> [kms EXCEPT ![t] = pu.km], calls |-> {"unmount"}]
        ELSE IF branch = "adopt"
        THEN [ledger |-> SetMounted(l, ActiveRows(l, t), TRUE),
              kmounts |-> kms, calls |-> {}]
        ELSE [ledger |-> l, kmounts |-> kms, calls |-> {}]

\* the distinct targets of this host's non-deleted rows (reconciliation.py 40-43)
ReconcileTargets(l) ==
    {t \in TargetIds : ActiveRows(l, t) # {}}

RECURSIVE ReconcileAll(_, _, _, _, _)
\* the loop of reconcile_on_startup over `todo`, rs[t] = the umount run of target t
ReconcileAll(l, jt, kms, todo, rs) ==
    IF todo = {}
    THEN [ledger |-> l, kmounts |-> kms, calls |-> {}]
    ELSE LET t == CHOOSE x \in todo : TRUE
             one == ReconcileTarget(l, jt, kms, t, rs[t])
             rest == ReconcileAll(one.ledger, jt, one.kmounts, todo \ {t}, rs)
         IN  [ledger |-> rest.ledger, kmounts |-> rest.kmounts,
              calls |-> one.calls \cup rest.calls]

\* ----------------------------------------------------------- dispatcher
Operations == {"mount", "unmount", "status"}

\* the messages the model delivers: requests for this node come from the
\* synchronous client and carry reply_to
Messages ==
    {m \in [operation : Operations, job_id : Jobs,
            target_id : TargetIds \cup {UnknownTarget},
            node_id : {NodeId, OtherNode}, reply_to : BOOLEAN] :
       m.node_id = NodeId => m.reply_to}

\* mutant: the node check accepts every message
NodeMatchesAny(m) == m.node_id \in {NodeId, OtherNode}

\* RabbitMQServer._on_request line 128
NodeMatches(m) == m.node_id = NodeId

ReplyOf(reply_to, success) ==
    IF ~reply_to THEN "none" ELSE IF success THEN "success" ELSE "failure"

\* the active job count of (t, this node) in the ledger l, is_mounted of t
CountOf(l, t) == IF t \in TargetIds THEN ComputeActiveCount(l, job, t) ELSE 0
ProbeOf(kms, t) == IF t \in TargetIds THEN IsMounted(kms[t]) ELSE FALSE

\* what a handled request leaves in evt: the message, the response of the
\* handler r, the driver calls, and what the handler saw (entry: the job had
\* a non-deleted row; probe: is_mounted before the request; after: the
\* active count after the insert / soft-delete)
Handled(m, r) ==
    [kind |-> m.operation, job |-> m.job_id, target |-> m.target_id,
     node |-> m.node_id, reply_to |-> m.reply_to,
     success |-> r.success, message |-> r.message, calls |-> r.calls,
     reply |-> ReplyOf(m.reply_to, r.success), ack |-> "ack",
     entry |-> FindActive(ledger, m.job_id, m.target_id) # {},
     probe |-> ProbeOf(kmounts, m.target_id),
     after |-> CountOf(r.ledger, m.target_id),
     changed |-> r.ledger # ledger \/ r.kmounts # kmounts,
     lockHeld |-> ServerPid \in flockOwner]

\* what a rejected message leaves in evt
Rejected(node, reply_to, kind, message) ==
    [kind |-> kind, job |-> 0, target |-> "",
     node |-> node, reply_to |-> reply_to,
     success |-> FALSE, message |-> message, calls |-> {},
     reply |-> ReplyOf(reply_to, FALSE), ack |-> "nack_no_requeue",
     entry |-> FALSE, probe |-> FALSE, after |-> 0, changed |-> FALSE,
     lockHeld |-> ServerPid \in flockOwner]

\* _on_request, node_id differs: reply success=false if reply_to, nack, return
OnRequestMismatch(m) ==
    /\ ~NodeMatches(m)
    /\ evt' = Rejected(m.node_id, m.reply_to, "mismatch", "Node mismatch")
    /\ UNCHANGED <<ledger, job, kmounts>>
    /\ UNCHANGED nonSvcVars

\* _on_request, body is not JSON: the except branch replies and nacks
OnRequestMalformed(reply_to) ==
    /\ evt' = Rejected("", reply_to, "malformed", "Server error")
    /\ UNCHANGED <<ledger, job, kmounts>>
    /\ UNCHANGED nonSvcVars

\* _on_request -> DMSServer._handle_request -> MountService.mount
OnRequestMount(m, rc) ==
    /\ NodeMatches(m)
    /\ m.operation = "mount"
    /\ LET r == Mount(ledger, job, kmounts, m.job_id, m.target_id, rc)
       IN  /\ Len(r.ledger) <= MaxRows
           /\ \A t \in TargetIds : Len(r.kmounts[t]) <= MaxStack
           /\ ledger' = r.ledger
           /\ kmounts' = r.kmounts
           /\ evt' = Handled(m, r)
    /\ UNCHANGED job
    /\ UNCHANGED nonSvcVars

\* _on_request -> DMSServer._handle_request -> MountService.unmount
OnRequestUnmount(m, run) ==
    /\ NodeMatches(m)
    /\ m.operation = "unmount"
    /\ LET r == Unmount(ledger, job, kmounts, m.job_id, m.target_id, run)
       IN  /\ ledger' = r.ledger
           /\ kmounts' = r.kmounts
           /\ evt' = Handled(m, r)
    /\ UNCHANGED job
    /\ UNCHANGED nonSvcVars

\* _handle_request, any other operation
OnRequestUnknown(m) ==
    /\ NodeMatches(m)
    /\ m.operation \notin {"mount", "unmount"}
    /\ evt' = Handled(m, [ledger |-> ledger, kmounts |-> kmounts,
                          success |-> FALSE, message |-> "Unknown operation",
                          mount_path |-> NoPath, calls |-> {}])
    /\ UNCHANGED <<ledger, job, kmounts>>
    /\ UNCHANGED nonSvcVars

\* what the reconcile run saw for each target: whether the loop visited it,
\* its active count, the is_mounted probe, and whether the driver unmount
\* (if called) raised
ReconSeen(rs) ==
    [t \in TargetIds |->
       [visited |-> t \in ReconcileTargets(ledger),
        count |-> CountOf(ledger, t),
        probe |-> IsMounted(kmounts[t]),
        raised |-> PerformUnmount(kmounts[t], rs[t]).raised]]

\* DMSServer.start -> reconcile_on_startup (a restart of the server)
Reconcile(rs) ==
    /\ LET r == ReconcileAll(ledger, job, kmounts, ReconcileTargets(ledger), rs)
       IN  /\ ledger' = r.ledger
           /\ kmounts' = r.kmounts
           /\ evt' = [kind |-> "reconcile", job |-> 0, target |-> "",
                      node |-> NodeId, reply_to |-> FALSE,
                      success |-> TRUE, message |-> "Reconciliation complete",
                      calls |-> r.calls, reply |-> "none", ack |-> "none",
                      entry |-> FALSE, probe |-> FALSE, after |-> 0,
                      changed |-> r.ledger # ledger \/ r.kmounts # kmounts,
                      lockHeld |-> ServerPid \in flockOwner,
                      recon |-> ReconSeen(rs)]
    /\ UNCHANGED job
    /\ UNCHANGED nonSvcVars

\* ----------------------------------------------------------- environment
\* the external job system moves a job through its life; the model never
\* soft-deletes a job row, which counts like a finished job
JobAdvance(j) ==
    /\ job[j].status \in ActiveStatuses
    /\ job' = [job EXCEPT ![j].status =
                 IF job[j].status = "STARTING" THEN "RUNNING" ELSE "COMPLETED"]
    /\ UNCHANGED <<ledger, kmounts, evt>>
    /\ UNCHANGED nonSvcVars

\* the export stops answering: the mount stays in the table, stat/listdir fail
GoStale(t) ==
    /\ IsMounted(kmounts[t])
    /\ kmounts' = [kmounts EXCEPT ![t][Len(kmounts[t])] = FALSE]
    /\ UNCHANGED <<ledger, job, evt>>
    /\ UNCHANGED nonSvcVars

\* the export answers again
Recover(t) ==
    /\ Len(kmounts[t]) > 0
    /\ ~IsMounted(kmounts[t])
    /\ kmounts' = [kmounts EXCEPT ![t][Len(kmounts[t])] = TRUE]
    /\ UNCHANGED <<ledger, job, evt>>
    /\ UNCHANGED nonSvcVars

\* ------------------------------------------------- S3 driver, S3 targets
\* One s3 target; every s3vaultfuse child serves its mount path.
S3Targets == {"s1"}
Pids == 1..MaxPid
NoPid == 0
FuseStates == {"none", "ok", "stale"}

NoRecords == [t \in S3Targets |-> NoPid]

InitSres ==
    [op |-> "init", ok |-> TRUE, job |-> 0, target |-> "", calls |-> {}]

InitS3 ==
    /\ up = TRUE
    /\ alive = {}
    /\ nextPid = 1
    /\ pidfile = NoRecords
    /\ fuse = [t \in S3Targets |-> "none"]
    /\ mount_processes = NoRecords
    /\ recon_processes = NoRecords
    /\ reaper = "starting"
    /\ sres = InitSres

\* --------------------------------------------- legacy server and client
NoRpc ==
    [state |-> "none", action |-> "none", job |-> 0, target |-> "",
     client |-> "none", status |-> "none"]

InitLres == [kind |-> "init", status |-> "none", reply |-> FALSE, acks |-> <<>>]

\* what a legacy client call returned, with the locals of the call: the
\* response keys that may be missing are sets ({} when the key is absent)
NoCres ==
    [status |-> "none", msg |-> "none", kind |-> "none", job |-> 0,
     target |-> "", sent |-> FALSE, entry |-> FALSE, mount_count |-> 0,
     unmounted |-> {}, active_mounts_remaining |-> {},
     reused_existing |-> {}, physically_mounted |-> {}]

InitLegacy ==
    /\ processes = NoRecords
    /\ rpc = NoRpc
    /\ lres = InitLres
    /\ cres = NoCres

\* ------------------------------------------------- consume loop, signals
NoDelivery ==
    [operation |-> "none", job_id |-> 0, reply_to |-> FALSE, success |-> FALSE,
     published |-> FALSE, ack |-> "none", sig |-> FALSE, tag |-> 0]

\* nothing published to the node's queue yet; basic_qos has set the prefetch.
\* ready: messages waiting in the queue; buffer: delivery tags handed to the
\* consumer and not yet given to _on_request; started / ended: the tags for
\* which _on_request was entered / left; fx: the tags whose handler has run
NoBroker ==
    [ready |-> 0, buffer |-> <<>>, nextTag |-> 1, prefetch |-> 1,
     started |-> <<>>, ended |-> <<>>, fx |-> <<>>]

\* start_consuming has connected and entered its loop
InitMq ==
    /\ conn = "open"
    /\ consuming = TRUE
    /\ phase = "idle"
    /\ cur = NoDelivery
    /\ fin = NoDelivery
    /\ broker = NoBroker

\* ------------------------------------------------------ context managers
\* no MountContext has been constructed yet
NoCtx ==
    [pc |-> "new", job |-> 0, target |-> "", mount_response |-> "none",
     body_raised |-> FALSE, raised |-> "none", log |-> <<>>]

\* batch_mount_context has not been called yet
NoBatch ==
    [pc |-> "idle", job |-> 0, targets |-> <<>>, i |-> 1,
     mounted_contexts |-> <<>>, pending |-> <<>>, raised |-> "none",
     log |-> <<>>]

InitCtx ==
    /\ ctx = NoCtx
    /\ batch = NoBatch

\* no MountService call yet: no job holds a mount, no driver call has failed
NoHist == [holders |-> {}, failed |-> FALSE]

\* ------------------------------------------------------------------ Spec
InitEvt ==
    [kind |-> "init", job |-> 0, target |-> "", node |-> NodeId,
     reply_to |-> FALSE, success |-> TRUE, message |-> "", calls |-> {},
     reply |-> "none", ack |-> "none", entry |-> FALSE, probe |-> FALSE,
     after |-> 0, changed |-> FALSE, lockHeld |-> FALSE]

\* a client call that has done nothing yet
NoCall == [published |-> FALSE, wrote |-> FALSE, resp |-> "none"]

InitLock ==
    /\ flockOwner = {}
    /\ pc = [p \in Procs |-> "idle"]
    /\ polls = [p \in Procs |-> 0]
    /\ cl = [p \in Procs |-> NoCall]

\* ------------------------------------------------ the PID directory
\* the PID files a starting manager may find, by target
PidFiles == {"s1", "s2"}
\* a PID file whose content int() rejects
Unparseable == -1
PidFileContents == {NoPid, Unparseable} \cup Pids
\* what a pid refers to: nothing, an s3vaultfuse child, another program
ProcKinds == {"dead", "fuse", "other"}

NoRecord == [pid |-> NoPid, loaded_from_disk |-> FALSE]

NoPidDir ==
    [phase |-> "down",
     files |-> [t \in PidFiles |-> NoPid],
     procs |-> [p \in Pids |-> "dead"],
     found |-> [t \in PidFiles |-> NoPid],
     processes |-> [t \in PidFiles |-> NoRecord]]

\* no driver call yet
NoDrv ==
    [op |-> "none", target |-> "", mounted |-> FALSE, stale |-> FALSE,
     window |-> FALSE, cleanup |-> "none", run |-> <<>>, cmds |-> <<>>,
     ret |-> FALSE]

\* neither a mount request nor a reconcile run in progress
NoRace ==
    [m |-> [pc |-> "idle", job |-> 0, target |-> "", row |-> 0, count |-> 0,
            probe |-> FALSE, success |-> FALSE],
     r |-> [pc |-> "idle", todo |-> {}, target |-> "", count |-> 0,
            probe |-> FALSE, unmounted |-> FALSE],
     overlap |-> FALSE]

Init ==
    /\ ledger = <<>>
    /\ job = [j \in Jobs |-> [status |-> "STARTING", deleted |-> FALSE]]
    /\ kmounts = [t \in TargetIds |-> <<>>]
    /\ evt = InitEvt
    /\ InitLock
    /\ InitS3
    /\ InitLegacy
    /\ InitMq
    /\ InitCtx
    /\ hist = NoHist
    /\ piddir = NoPidDir
    /\ drv = NoDrv
    /\ race = NoRace

Next ==
    \/ \E m \in Messages : OnRequestMismatch(m)
    \/ \E reply_to \in BOOLEAN : OnRequestMalformed(reply_to)
    \/ \E m \in Messages, rc \in MountRcs : OnRequestMount(m, rc)
    \/ \E m \in Messages, run \in ServiceUmountRuns : OnRequestUnmount(m, run)
    \/ \E m \in Messages : OnRequestUnknown(m)
    \/ \E rs \in [TargetIds -> ServiceUmountRuns] : Reconcile(rs)
    \/ \E j \in Jobs : JobAdvance(j)
    \/ \E t \in TargetIds : GoStale(t)
    \/ \E t \in TargetIds : Recover(t)

Spec == Init /\ [][Next]_vars

\* ------------------------------------------------------------ file lock
\* mutant: the lock attempt succeeds although the lock is held
FlockGrantsAlways(owners) == owners = owners

\* fcntl.flock(LOCK_EX | LOCK_NB) succeeds iff no other open file
\* description holds the lock; owners = the descriptions holding it
FlockGrants(owners) == owners = {}

\* how a body under the lock can end
BodyEnds == {"returned", "raised"}

\* mutant: the protected body runs although the lock was not acquired
CallOutcomeAlways(acquired, pub, wr, out) ==
    [published |-> pub, wrote |-> wr, resp |-> out]

\* DMSClient.mount / DMSClient.unmount (client.py 124-142) around
\* acquire_lock: `yield` is reached only when the loop ended with
\* acquired = True, and then the body may publish a request and write the
\* ledger; a TimeoutError skips the body and becomes the error response
\* 'Could not acquire lock'
CallOutcome(acquired, pub, wr, out) ==
    IF acquired
    THEN [published |-> pub, wrote |-> wr, resp |-> out]
    ELSE [published |-> FALSE, wrote |-> FALSE, resp |-> "lock_timeout"]

\* mutant: the lock is released only when the body returns normally
AfterBodyLeak(owners, p, out) ==
    IF out = "raised" THEN owners ELSE owners \ {p}

\* the finally block, lines 100-116: LOCK_UN and close, whatever ended the body
AfterBody(owners, p, out) == owners \ {p}

\* acquire_lock lines 61-71: open the lock file, note the start time
LockBegin(p) ==
    /\ pc[p] = "idle"
    /\ pc' = [pc EXCEPT ![p] = "polling"]
    /\ polls' = [polls EXCEPT ![p] = 0]
    /\ cl' = [cl EXCEPT ![p] = NoCall]
    /\ UNCHANGED flockOwner
    /\ UNCHANGED nonLockVars

\* one turn of the while loop, lines 72-96; polls counts the 0.1 s sleeps
\* and MaxPolls stands for the timeout
LockTry(p) ==
    /\ pc[p] = "polling"
    /\ IF FlockGrants(flockOwner)
       THEN /\ flockOwner' = flockOwner \cup {p}
            /\ pc' = [pc EXCEPT ![p] = "held"]
            /\ UNCHANGED <<polls, cl>>
       ELSE IF polls[p] >= MaxPolls
            THEN /\ pc' = [pc EXCEPT ![p] = "timedout"]   \* TimeoutError
                 /\ \E pub, wr \in BOOLEAN, out \in BodyEnds :
                      cl' = [cl EXCEPT ![p] = CallOutcome(FALSE, pub, wr, out)]
                 /\ UNCHANGED <<flockOwner, polls>>
            ELSE /\ polls' = [polls EXCEPT ![p] = polls[p] + 1]
                 /\ UNCHANGED <<flockOwner, pc, cl>>
    /\ UNCHANGED nonLockVars

\* the body under the lock ends (returns or raises): the finally block
LockRelease(p) ==
    /\ pc[p] = "held"
    /\ \E pub, wr \in BOOLEAN, out \in BodyEnds :
         /\ cl' = [cl EXCEPT ![p] = CallOutcome(TRUE, pub, wr, out)]
         /\ flockOwner' = AfterBody(flockOwner, p, out)
    /\ pc' = [pc EXCEPT ![p] = "idle"]
    /\ UNCHANGED polls
    /\ UNCHANGED nonLockVars

\* the caller that got TimeoutError comes back later
LockRetry(p) ==
    /\ pc[p] = "timedout"
    /\ pc' = [pc EXCEPT ![p] = "idle"]
    /\ UNCHANGED <<flockOwner, polls, cl>>
    /\ UNCHANGED nonLockVars

NextLock ==
    \/ \E p \in Procs : LockBegin(p)
    \/ \E p \in Procs : LockTry(p)
    \/ \E p \in Procs : LockRelease(p)
    \/ \E p \in Procs : LockRetry(p)

SpecLock == Init /\ [][NextLock]_vars

\* every lock user is a running thread or process: its loop keeps turning,
\* and a body under the lock ends
SpecLockFair ==
    /\ SpecLock
    /\ \A p \in Procs : WF_vars(LockTry(p))
    /\ \A p \in Procs : WF_vars(LockRelease(p))

\* ------------------------------------------------------ S3 operations
\* S3Driver._is_mounted: an entry in /proc/mounts, stat and listdir answer,
\* and, when the driver tracks the path with a Popen object, the child has
\* not terminated (an adopted psutil.Process has no poll)
S3IsMounted(fs, rec, popen, live) ==
    /\ fs = "ok"
    /\ (rec # NoPid /\ popen) => rec \in live

\* how a spawned child fares: _spawn_s3vaultfuse raises (exited within 0.5 s),
\* poll() is not None after 2 s, alive but the path is not mounted, or mounted
SpawnOutcomes == {"exited", "died", "not_accessible", "ok"}

\* S3Driver.mount on MountService's driver
DriverMount(t, out) ==
    /\ up
    /\ IF S3IsMounted(fuse[t], mount_processes[t], TRUE, alive)
       THEN /\ sres' = [op |-> "driver_mount", ok |-> TRUE, job |-> 0,
                        target |-> t, calls |-> {}]
            /\ UNCHANGED <<alive, nextPid, pidfile, fuse, mount_processes>>
       ELSE /\ nextPid <= MaxPid
            /\ nextPid' = nextPid + 1
            /\ sres' = [op |-> "driver_mount", ok |-> (out = "ok"), job |-> 0,
                        target |-> t, calls |-> {"spawn"}]
            /\ IF out = "ok"
               THEN /\ alive' = alive \cup {nextPid}
                    /\ fuse' = [fuse EXCEPT ![t] = "ok"]
                    /\ mount_processes' = [mount_processes EXCEPT ![t] = nextPid]
                    /\ pidfile' = [pidfile EXCEPT ![t] = nextPid]
               ELSE IF out = "exited"
               THEN UNCHANGED <<alive, fuse, mount_processes, pidfile>>
               ELSE \* record stored and PID file written, then both removed
                    /\ mount_processes' = [mount_processes EXCEPT ![t] = NoPid]
                    /\ pidfile' = [pidfile EXCEPT ![t] = NoPid]
                    /\ UNCHANGED <<alive, fuse>>
    /\ UNCHANGED <<up, recon_processes, reaper, ledger>>
    /\ UNCHANGED nonS3Vars

\* what the unmount leaves of the mount: the entry is gone, the entry stays
\* but no longer answers, or fusermount -u fails
UnmountEffects == {"unmounted", "left_stale", "failed"}

\* S3Driver.unmount on MountService's driver
DriverUnmount(t, eff) ==
    /\ up
    /\ IF ~S3IsMounted(fuse[t], mount_processes[t], TRUE, alive)
       THEN /\ sres' = [op |-> "driver_unmount", ok |-> TRUE, job |-> 0,
                        target |-> t, calls |-> {}]
            /\ UNCHANGED <<alive, pidfile, fuse, mount_processes>>
       ELSE IF mount_processes[t] # NoPid
       THEN \* terminate (kill after 5 s), forget the record, remove the file
            /\ alive' = alive \ {mount_processes[t]}
            /\ mount_processes' = [mount_processes EXCEPT ![t] = NoPid]
            /\ pidfile' = [pidfile EXCEPT ![t] = NoPid]
            /\ fuse' = [fuse EXCEPT ![t] =
                          IF eff = "left_stale" \/ alive' # {}
                          THEN "stale" ELSE "none"]
            /\ sres' = [op |-> "driver_unmount", ok |-> TRUE, job |-> 0,
                        target |-> t, calls |-> {"terminate"}]
       ELSE \* not tracked: fusermount -u, the PID file is not touched
            IF eff = "failed"
            THEN /\ sres' = [op |-> "driver_unmount", ok |-> FALSE, job |-> 0,
                             target |-> t, calls |-> {"fusermount"}]
                 /\ UNCHANGED <<alive, pidfile, fuse, mount_processes>>
            ELSE /\ fuse' = [fuse EXCEPT ![t] = "none"]
                 /\ alive' = {}       \* the fuse daemon exits with its mount
                 /\ sres' = [op |-> "driver_unmount", ok |-> TRUE, job |-> 0,
                             target |-> t, calls |-> {"fusermount"}]
                 /\ UNCHANGED <<pidfile, mount_processes>>
    /\ UNCHANGED <<up, nextPid, recon_processes, reaper, ledger>>
    /\ UNCHANGED nonS3Vars

\* a child terminates by itself; with the last child gone the mount path
\* either leaves the mount table or stays there unanswering
ChildDies(p, leaves) ==
    /\ p \in alive
    /\ alive' = alive \ {p}
    /\ fuse' = [t \in S3Targets |->
                  IF fuse[t] = "ok" /\ alive' = {}
                  THEN (IF leaves THEN "none" ELSE "stale")
                  ELSE fuse[t]]
    /\ UNCHANGED <<up, nextPid, pidfile, mount_processes, recon_processes,
                   reaper, sres, ledger>>
    /\ UNCHANGED nonS3Vars

\* The reaper thread evaluates "while self._reaper_running" for the first
\* time.  __init__ starts the thread (line 79) before it sets the attribute
\* (line 80): if the thread gets there first, AttributeError ends it.
ReaperStart(set_first) ==
    /\ up
    /\ reaper = "starting"
    /\ reaper' = IF set_first THEN "looping" ELSE "ended"
    /\ UNCHANGED <<up, alive, nextPid, pidfile, fuse, mount_processes,
                   recon_processes, sres, ledger>>
    /\ UNCHANGED nonS3Vars

\* one pass of S3Driver._reap_zombies over a terminated tracked child: the
\* PID file is removed, the record stays in mount_processes
Reaper(t) ==
    /\ up
    /\ reaper = "looping"
    /\ mount_processes[t] # NoPid
    /\ mount_processes[t] \notin alive
    /\ pidfile[t] # NoPid
    /\ pidfile' = [pidfile EXCEPT ![t] = NoPid]
    /\ UNCHANGED <<up, alive, nextPid, fuse, mount_processes, recon_processes,
                   reaper, sres, ledger>>
    /\ UNCHANGED nonS3Vars

\* MountService.mount for an s3 target.  _is_mounted (line 202) calls
\* self.s3_driver.is_mounted, which S3Driver does not define: with an active
\* count of 1 the probe raises AttributeError after the new row is committed.
MountS3(l, jt, j, t) ==
    IF FindActive(l, j, t) # {}
    THEN [ledger |-> l, success |-> TRUE]
    ELSE LET l1 == Append(l, NewLedgerRow(j, t))
             active_count == ComputeActiveCount(l1, jt, t)
         IN  IF active_count = 1
             THEN [ledger |-> l1, success |-> FALSE]
             ELSE IF active_count > 1
             THEN [ledger |-> SetMounted(l1, {Len(l1)}, TRUE), success |-> TRUE]
             ELSE [ledger |-> l1, success |-> TRUE]

\* MountService.unmount for an s3 target: with an active count of 0 the
\* probe raises AttributeError after the soft delete is committed
UnmountS3(l, jt, j, t) ==
    LET l1 == SoftDelete(l, FindActive(l, j, t))
        active_count == ComputeActiveCount(l1, jt, t)
    IN  [ledger |-> l1, success |-> active_count # 0]

ServiceMountS3(j, t) ==
    /\ up
    /\ Len(ledger) < MaxRows \/ FindActive(ledger, j, t) # {}
    /\ LET r == MountS3(ledger, job, j, t)
       IN  /\ ledger' = r.ledger
           /\ sres' = [op |-> "mount", ok |-> r.success, job |-> j,
                       target |-> t, calls |-> {}]
    /\ UNCHANGED <<up, alive, nextPid, pidfile, fuse, mount_processes,
                   recon_processes, reaper>>
    /\ UNCHANGED nonS3Vars

ServiceUnmountS3(j, t) ==
    /\ up
    /\ LET r == UnmountS3(ledger, job, j, t)
       IN  /\ ledger' = r.ledger
           /\ sres' = [op |-> "unmount", ok |-> r.success, job |-> j,
                       target |-> t, calls |-> {}]
    /\ UNCHANGED <<up, alive, nextPid, pidfile, fuse, mount_processes,
                   recon_processes, reaper>>
    /\ UNCHANGED nonS3Vars

\* the server process ends (DMSServer._signal_handler, or it is killed): its
\* memory is gone; the children run in their own session and stay
Shutdown ==
    /\ up
    /\ up' = FALSE
    /\ mount_processes' = NoRecords
    /\ recon_processes' = NoRecords
    /\ reaper' = "ended"
    /\ sres' = [op |-> "shutdown", ok |-> TRUE, job |-> 0, target |-> "",
                calls |-> {}]
    /\ UNCHANGED <<alive, nextPid, pidfile, fuse, ledger>>
    /\ UNCHANGED nonS3Vars

\* ReconciliationService._reconcile_s3_processes: a live child whose command
\* line ends with a mount path that os.path.ismount accepts is adopted into
\* the Reconciler's own S3Driver
Adopted(live, fs, cmdline_has_path) ==
    [t \in S3Targets |->
       IF cmdline_has_path /\ live # {} /\ fs[t] = "ok"
       THEN CHOOSE p \in live : \A q \in live : q <= p
       ELSE NoPid]

\* DMSServer.__init__ and start up to the consume loop.  Both S3Drivers are
\* new and empty, the reaper thread is started.  For an s3 target
\* _reconcile_target raises AttributeError at the is_mounted probe (line
\* 164), which reconcile_on_startup logs: the ledger is not touched.
Startup(cmdline_has_path) ==
    /\ ~up
    /\ up' = TRUE
    /\ mount_processes' = NoRecords
    /\ reaper' = "starting"
    /\ recon_processes' = Adopted(alive, fuse, cmdline_has_path)
    /\ sres' = [op |-> "startup", ok |-> TRUE, job |-> 0, target |-> "",
                calls |-> {}]
    /\ UNCHANGED <<alive, nextPid, pidfile, fuse, ledger>>
    /\ UNCHANGED nonS3Vars

NextS3 ==
    \/ \E t \in S3Targets, out \in SpawnOutcomes : DriverMount(t, out)
    \/ \E t \in S3Targets, eff \in UnmountEffects : DriverUnmount(t, eff)
    \/ \E p \in Pids, leaves \in BOOLEAN : ChildDies(p, leaves)
    \/ \E t \in S3Targets : Reaper(t)
    \/ \E j \in Jobs, t \in S3Targets : ServiceMountS3(j, t)
    \/ \E j \in Jobs, t \in S3Targets : ServiceUnmountS3(j, t)
    \/ Shutdown
    \/ \E c \in BOOLEAN : Startup(c)
    \/ \E set_first \in BOOLEAN : ReaperStart(set_first)
    \/ \E j \in Jobs : JobAdvance(j)

SpecS3 == Init /\ [][NextS3]_vars

\* ------------------------------------------------ legacy S3VaultFuseManager
\* S3VaultFuseManager._cleanup_process_entry
CleanupProcessEntry(m, t) ==
    [m EXCEPT !.processes[t] = NoPid, !.pidfile[t] = NoPid]

\* S3VaultFuseManager.kill_s3vaultfuse on the manager state m =
\* [processes, pidfile, alive]: the pid comes from memory or from the PID file
KillS3VaultFuse(m, t) ==
    LET pid == IF m.processes[t] # NoPid THEN m.processes[t] ELSE m.pidfile[t]
    IN  IF pid = NoPid THEN m
        ELSE IF pid \notin m.alive THEN CleanupProcessEntry(m, t)
        ELSE CleanupProcessEntry([m EXCEPT !.alive = m.alive \ {pid}], t)

\* S3VaultFuseManager.cleanup_all: kill_s3vaultfuse for every tracked target
RECURSIVE CleanupAll(_, _)
CleanupAll(m, todo) ==
    IF todo = {} THEN m
    ELSE LET t == CHOOSE x \in todo : TRUE
         IN  CleanupAll(KillS3VaultFuse(m, t), todo \ {t})

Tracked(procs) == {t \in S3Targets : procs[t] # NoPid}

\* S3VaultFuseManager._load_existing_pids: a PID file of a live process
\* becomes a record, a PID file of a dead process is deleted
LoadExistingPids(pf, live) ==
    [processes |-> [t \in S3Targets |-> IF pf[t] \in live THEN pf[t] ELSE NoPid],
     pidfile |-> [t \in S3Targets |-> IF pf[t] \in live THEN pf[t] ELSE NoPid],
     alive |-> live]

\* S3VaultFuseManager.spawn_s3vaultfuse with a new child of pid p that fares
\* as out; ret is the returned flag, spawned whether Popen ran
SpawnS3VaultFuse(m, t, p, out) ==
    LET m1 == IF m.processes[t] # NoPid /\ m.processes[t] \notin m.alive
              THEN CleanupProcessEntry(m, t) ELSE m
    IN  IF m.processes[t] # NoPid /\ m.processes[t] \in m.alive
        THEN [m |-> m, ret |-> TRUE, spawned |-> FALSE, mounts |-> FALSE]
        ELSE IF m1.pidfile[t] # NoPid /\ m1.pidfile[t] \in m1.alive
        THEN [m |-> [m1 EXCEPT !.processes[t] = m1.pidfile[t]],
              ret |-> TRUE, spawned |-> FALSE, mounts |-> FALSE]
        ELSE IF out \in {"exited", "died"}
        THEN [m |-> m1, ret |-> FALSE, spawned |-> TRUE, mounts |-> FALSE]
        ELSE [m |-> [m1 EXCEPT !.processes[t] = p, !.pidfile[t] = p,
                               !.alive = m1.alive \cup {p}],
              ret |-> TRUE, spawned |-> TRUE, mounts |-> out = "ok"]

ManagerState == [processes |-> processes, pidfile |-> pidfile, alive |-> alive]

\* legacy DMSServer._mount_s3: utils.is_mounted, spawn, utils.is_mounted
LegacyMountS3(m, fs, t, p, out) ==
    IF fs[t] = "ok"
    THEN [m |-> m, fuse |-> fs, status |-> "success", spawned |-> FALSE]
    ELSE LET sp == SpawnS3VaultFuse(m, t, p, out)
             fs1 == IF sp.mounts THEN [fs EXCEPT ![t] = "ok"] ELSE fs
         IN  [m |-> sp.m, fuse |-> fs1, spawned |-> sp.spawned,
              status |-> IF sp.ret /\ fs1[t] = "ok" THEN "success" ELSE "error"]

\* legacy DMSServer._handle_unmount for an s3 target: kill the child, then
\* umount, umount -f, umount -l
LegacyUnmountS3(m, fs, t, eff) ==
    LET k == KillS3VaultFuse(m, t)
    IN  IF fs[t] # "ok"
        THEN [m |-> k, fuse |-> fs, status |-> "success", spawned |-> FALSE]
        ELSE IF eff = "failed"
        THEN [m |-> k, fuse |-> [fs EXCEPT ![t] = "stale"], status |-> "error",
              spawned |-> FALSE]
        ELSE [m |-> k, fuse |-> [fs EXCEPT ![t] = "none"], status |-> "success",
              spawned |-> FALSE]

\* legacy DMSServer._handle_request for the queued client request: handle,
\* publish the response to reply_to, basic_ack
LegacyOnRequest(out, eff) ==
    /\ up
    /\ rpc.state = "queued"
    /\ LET r == IF rpc.action = "mount"
                THEN LegacyMountS3(ManagerState, fuse, rpc.target, nextPid, out)
                ELSE LegacyUnmountS3(ManagerState, fuse, rpc.target, eff)
       IN  /\ r.spawned => nextPid <= MaxPid
           /\ nextPid' = IF r.spawned THEN nextPid + 1 ELSE nextPid
           /\ processes' = r.m.processes
           /\ pidfile' = r.m.pidfile
           /\ alive' = r.m.alive
           /\ fuse' = r.fuse
           /\ rpc' = [rpc EXCEPT !.state = "replied", !.status = r.status]
           /\ lres' = [kind |-> rpc.action, status |-> r.status,
                       reply |-> TRUE, acks |-> <<"ack">>]
    /\ UNCHANGED <<up, ledger, cres>>
    /\ UNCHANGED nonLegacyVars

\* legacy DMSServer._handle_request for a JSON body with another action
LegacyOnUnknown(reply_to) ==
    /\ up
    /\ lres' = [kind |-> "unknown", status |-> "error", reply |-> reply_to,
                acks |-> <<"ack">>]
    /\ UNCHANGED <<up, alive, nextPid, pidfile, fuse, processes, rpc, ledger, cres>>
    /\ UNCHANGED nonLegacyVars

\* legacy DMSServer._handle_request for a body that is not JSON: the
\* JSONDecodeError branch (server.py 182-186) replies and calls basic_ack
LegacyOnMalformed(reply_to) ==
    /\ up
    /\ lres' = [kind |-> "malformed", status |-> "error", reply |-> reply_to,
                acks |-> <<"ack">>]
    /\ UNCHANGED <<up, alive, nextPid, pidfile, fuse, processes, rpc, ledger, cres>>
    /\ UNCHANGED nonLegacyVars

\* how the legacy server process ends: Ctrl-C reaches the except clause of
\* start (cleanup_all), the manager object is finalised (__del__:
\* cleanup_all(force=True)), or the process is killed outright
ShutdownKinds == {"keyboard_interrupt", "del", "killed"}

LegacyShutdown(kind, leaves) ==
    /\ up
    /\ LET m == IF kind = "killed" THEN ManagerState
                ELSE CleanupAll(ManagerState, Tracked(processes))
       IN  /\ alive' = m.alive
           /\ pidfile' = m.pidfile
           /\ fuse' = [t \in S3Targets |->
                         IF fuse[t] = "ok" /\ m.alive = {}
                         THEN (IF leaves THEN "none" ELSE "stale")
                         ELSE fuse[t]]
    /\ processes' = NoRecords
    /\ up' = FALSE
    /\ lres' = [kind |-> "shutdown", status |-> kind, reply |-> FALSE,
                acks |-> <<>>]
    /\ UNCHANGED <<nextPid, rpc, ledger, cres>>
    /\ UNCHANGED nonLegacyVars

\* legacy DMSServer.__init__: a new S3VaultFuseManager loads the PID files
LegacyStartup ==
    /\ ~up
    /\ up' = TRUE
    /\ LET m == LoadExistingPids(pidfile, alive)
       IN  /\ processes' = m.processes
           /\ pidfile' = m.pidfile
    /\ lres' = [kind |-> "startup", status |-> "none", reply |-> FALSE,
                acks |-> <<>>]
    /\ UNCHANGED <<alive, nextPid, fuse, rpc, ledger, cres>>
    /\ UNCHANGED nonLegacyVars

\* ---------------------------------------------------------- legacy client
\* the first row of (jobid, backup_target_id, host), deleted or not
LegacyExisting(l, j, t) ==
    {i \in RowIds(l) : /\ l[i].jobid = j
                       /\ l[i].backup_target_id = t
                       /\ l[i].host = NodeId}

\* the rows of (backup_target_id, host) with mounted == True
LegacyMounted(l, t) ==
    {i \in RowIds(l) : /\ l[i].backup_target_id = t
                       /\ l[i].host = NodeId
                       /\ l[i].mounted}

\* "Create or update ledger" + commit (client.py 205-221)
WriteMounted(l, j, t) ==
    IF LegacyExisting(l, j, t) # {}
    THEN SetMounted(l, LegacyExisting(l, j, t), TRUE)
    ELSE Append(l, [NewLedgerRow(j, t) EXCEPT !.mounted = TRUE])

Publish(action, j, t) ==
    [state |-> "queued", action |-> action, job |-> j, target |-> t,
     client |-> "waiting", status |-> "none"]

\* utils.create_response(status, error_msg=None, success_msg=None): any
\* other keyword argument raises TypeError
create_response(status, msg, kwargs) ==
    IF DOMAIN kwargs # {}
    THEN [raised |-> TRUE, status |-> "none", msg |-> "none"]
    ELSE [raised |-> FALSE, status |-> status, msg |-> msg]

\* the locals of a client call before it has returned
Call(kind, j, t) ==
    [NoCres EXCEPT !.kind = kind, !.job = j, !.target = t]

\* `return create_response(status, ..., unmounted=u, active_mounts_remaining=n)`
\* inside the try of _execute_unmount_request: a TypeError is caught by
\* `except Exception`, which returns create_response('error', str(e))
UnmountReturn(call, status, msg, u, n) ==
    LET r == create_response(status, msg,
                 [unmounted |-> {u}, active_mounts_remaining |-> {n}])
    IN  IF r.raised
        THEN LET e == create_response("error", "type_error", <<>>)
             IN  [call EXCEPT !.status = e.status, !.msg = e.msg]
        ELSE [call EXCEPT !.status = r.status, !.msg = r.msg,
                          !.unmounted = {u},
                          !.active_mounts_remaining = {n}]

\* _execute_mount_request without the "mounted by other jobs" check
MountDecisionNoReuse(l, j, t) ==
    IF \E i \in LegacyExisting(l, j, t) : l[i].mounted THEN "reuse_own"
    ELSE "send"

\* which branch _execute_mount_request takes
MountDecision(l, j, t) ==
    IF \E i \in LegacyExisting(l, j, t) : l[i].mounted THEN "reuse_own"
    ELSE IF LegacyMounted(l, t) # {} THEN "reuse_other"
    ELSE "send"

\* client.mount -> _execute_mount_request up to the return or to the wait
\* loop of _send_request.  One client call at a time (the file lock), and a
\* new request is published only when the server has consumed the last one.
ClientMount(j, t) ==
    /\ rpc.client # "waiting"
    /\ rpc.state # "queued"
    /\ LegacyExisting(ledger, j, t) # {} \/ Len(ledger) < MaxRows
    /\ LET d == MountDecision(ledger, j, t)
           call == [Call("mount", j, t) EXCEPT
                      !.mount_count = Cardinality(LegacyMounted(ledger, t))]
       IN  CASE d = "reuse_own" ->
                 /\ cres' = [call EXCEPT !.status = "success",
                                         !.msg = "reused",
                                         !.reused_existing = {TRUE}]
                 /\ UNCHANGED <<ledger, rpc>>
             [] d = "reuse_other" ->
                 /\ ledger' = WriteMounted(ledger, j, t)
                 /\ cres' = [call EXCEPT !.status = "success",
                                         !.msg = "mount_successful",
                                         !.reused_existing = {TRUE},
                                         !.physically_mounted = {FALSE}]
                 /\ UNCHANGED rpc
             [] OTHER ->
                 /\ rpc' = Publish("mount", j, t)
                 /\ cres' = [call EXCEPT !.status = "pending", !.sent = TRUE]
                 /\ UNCHANGED ledger
    /\ UNCHANGED <<up, alive, nextPid, pidfile, fuse, processes, lres>>
    /\ UNCHANGED nonLegacyVars

\* client.unmount -> _execute_unmount_request up to the return or to the
\* wait loop of _send_request
ClientUnmount(j, t) ==
    /\ rpc.client # "waiting"
    /\ rpc.state # "queued"
    /\ LET active == LegacyMounted(ledger, t)
           current_job_entry == {i \in active : ledger[i].jobid = j}
           mount_count == Cardinality(active)
           call == [Call("unmount", j, t) EXCEPT
                      !.mount_count = mount_count,
                      !.entry = (current_job_entry # {})]
       IN  IF current_job_entry = {}
           THEN /\ cres' = UnmountReturn(call, "error", "no_active_mount",
                                         FALSE, mount_count)
                /\ UNCHANGED <<ledger, rpc>>
           ELSE IF mount_count = 1
           THEN /\ rpc' = Publish("unmount", j, t)
                /\ cres' = [call EXCEPT !.status = "pending", !.sent = TRUE]
                /\ UNCHANGED ledger
           ELSE /\ ledger' = SetMounted(ledger, current_job_entry, FALSE)
                /\ cres' = UnmountReturn(call, "success", "retained",
                                         FALSE, mount_count - 1)
                /\ UNCHANGED rpc
    /\ UNCHANGED <<up, alive, nextPid, pidfile, fuse, processes, lres>>
    /\ UNCHANGED nonLegacyVars

\* the response arrives inside the wait loop of _send_request and the
\* caller runs to its return
ClientReceive ==
    /\ rpc.client = "waiting"
    /\ rpc.state = "replied"
    /\ rpc' = [rpc EXCEPT !.client = "done"]
    /\ IF rpc.status # "success"
       THEN /\ cres' = [cres EXCEPT !.status = "error", !.msg = "server_error"]
            /\ UNCHANGED ledger
       ELSE IF rpc.action = "mount"
       THEN /\ ledger' = WriteMounted(ledger, rpc.job, rpc.target)
            /\ cres' = [cres EXCEPT !.status = "success",
                                    !.msg = "mount_successful",
                                    !.reused_existing = {FALSE},
                                    !.physically_mounted = {TRUE}]
       ELSE /\ ledger' = SetMounted(ledger,
                           {i \in LegacyMounted(ledger, rpc.target) :
                              ledger[i].jobid = rpc.job}, FALSE)
            /\ cres' = UnmountReturn(cres, "success", "unmounted",
                                     TRUE, cres.mount_count - 1)
    /\ UNCHANGED <<up, alive, nextPid, pidfile, fuse, processes, lres>>
    /\ UNCHANGED nonLegacyVars

\* timeout_counter > self.timeout before the response: RequestTimeoutException
\* leaves _send_request, _execute_*_request rolls back and returns an error;
\* the request stays in the node's queue
ClientTimeout ==
    /\ rpc.client = "waiting"
    /\ rpc.state = "queued"
    /\ rpc' = [rpc EXCEPT !.client = "timedout"]
    /\ cres' = [cres EXCEPT !.status = "error", !.msg = "timeout"]
    /\ UNCHANGED <<up, alive, nextPid, pidfile, fuse, processes, lres, ledger>>
    /\ UNCHANGED nonLegacyVars

\* another writer of backup_target_mount_ledger soft-deletes a row and
\* leaves its mounted flag as it is
SoftDeleteEntry(i) ==
    /\ ~ledger[i].deleted
    /\ ledger' = SoftDelete(ledger, {i})
    /\ UNCHANGED <<up, alive, nextPid, pidfile, fuse, processes, lres, rpc, cres>>
    /\ UNCHANGED nonLegacyVars

NextLegacy ==
    \/ \E j \in Jobs, t \in S3Targets : ClientMount(j, t)
    \/ \E j \in Jobs, t \in S3Targets : ClientUnmount(j, t)
    \/ ClientReceive
    \/ ClientTimeout
    \/ \E i \in RowIds(ledger) : SoftDeleteEntry(i)
    \/ \E out \in SpawnOutcomes, eff \in UnmountEffects : LegacyOnRequest(out, eff)
    \/ \E reply_to \in BOOLEAN : LegacyOnUnknown(reply_to)
    \/ \E reply_to \in BOOLEAN : LegacyOnMalformed(reply_to)
    \/ \E kind \in ShutdownKinds, leaves \in BOOLEAN : LegacyShutdown(kind, leaves)
    \/ LegacyStartup
    \/ \E p \in Pids, leaves \in BOOLEAN : ChildDies(p, leaves)

SpecLegacy == Init /\ [][NextLegacy]_vars

\* ------------------------------------------- consume loop under signals
\* The steps of RabbitMQServer._on_request for a request of this node, with
\* DMSServer._signal_handler able to run between them: Python runs a signal
\* handler in the main thread between two bytecodes of whatever is executing.

\* a client publishes a request to the node's queue
Enqueue ==
    /\ broker.ready < MaxQueue
    /\ broker' = [broker EXCEPT !.ready = @ + 1]
    /\ UNCHANGED <<conn, consuming, phase, cur, fin>>
    /\ UNCHANGED nonMqVars

\* deliveries of the channel that are not acknowledged yet
Unacked == Len(broker.buffer) + IF phase = "idle" THEN 0 ELSE 1

\* the broker hands the next message of the queue to the consumer, as long
\* as fewer than prefetch_count deliveries are unacknowledged; delivery tags
\* count the deliveries of the channel
Push ==
    /\ conn = "open"
    /\ consuming
    /\ broker.ready > 0
    /\ Unacked < broker.prefetch
    /\ broker.nextTag <= MaxTags
    /\ broker' = [broker EXCEPT !.ready = @ - 1,
                                !.buffer = Append(@, broker.nextTag),
                                !.nextTag = @ + 1]
    /\ UNCHANGED <<conn, consuming, phase, cur, fin>>
    /\ UNCHANGED nonMqVars

\* a consumer that takes the newest delivery first
NextDispatchNewest(buffer) == Len(buffer)

\* process_data_events gives the deliveries to the callback in the order
\* in which they arrived
NextDispatch(buffer) == 1

\* process_data_events calls _on_request for the next delivery; it does so
\* from the one thread of start_consuming, when no callback is running
Deliver(op, j, reply_to) ==
    /\ conn = "open"
    /\ consuming
    /\ phase = "idle"
    /\ broker.buffer # <<>>
    /\ LET k == NextDispatch(broker.buffer)
           tag == broker.buffer[k]
       IN  /\ cur' = [operation |-> op, job_id |-> j, reply_to |-> reply_to,
                      success |-> FALSE, published |-> FALSE, ack |-> "none",
                      sig |-> FALSE, tag |-> tag]
           /\ broker' = [broker EXCEPT
                           !.buffer = SubSeq(@, 1, k - 1) \o
                                      SubSeq(@, k + 1, Len(@)),
                           !.started = Append(@, tag)]
    /\ phase' = "handling"
    /\ UNCHANGED <<conn, consuming, fin>>
    /\ UNCHANGED nonMqVars

\* self.handler(request) returns its response: the ledger updates and the
\* driver calls of the request are done
HandlerReturns(ok) ==
    /\ phase = "handling"
    /\ cur' = [cur EXCEPT !.success = ok]
    /\ phase' = IF cur.reply_to THEN "replying" ELSE "acking"
    /\ broker' = [broker EXCEPT !.fx = Append(@, cur.tag)]
    /\ UNCHANGED <<conn, consuming, fin>>
    /\ UNCHANGED nonMqVars

\* basic_publish of the response.  On a closed connection it raises; the
\* except clause tries to publish an error (swallowed) and basic_nack raises
\* out of _on_request: nothing is published, nothing acknowledged.
PublishReply ==
    /\ phase = "replying"
    /\ IF conn = "open"
       THEN /\ cur' = [cur EXCEPT !.published = TRUE]
            /\ phase' = "acking"
            /\ UNCHANGED <<fin, broker>>
       ELSE /\ fin' = cur
            /\ cur' = NoDelivery
            /\ phase' = "idle"
            /\ broker' = [broker EXCEPT !.ended = Append(@, cur.tag)]
    /\ UNCHANGED <<conn, consuming>>
    /\ UNCHANGED nonMqVars

\* basic_ack; on a closed connection it raises and so does the basic_nack of
\* the except clause
Ack ==
    /\ phase = "acking"
    /\ fin' = [cur EXCEPT !.ack = IF conn = "open" THEN "ack" ELSE "none"]
    /\ cur' = NoDelivery
    /\ phase' = "idle"
    /\ broker' = [broker EXCEPT !.ended = Append(@, cur.tag)]
    /\ UNCHANGED <<conn, consuming>>
    /\ UNCHANGED nonMqVars

\* DMSServer._signal_handler: mq_server.stop() clears consuming and closes
\* the connection at once, whatever _on_request is doing.  The broker puts
\* the unacknowledged deliveries of the closed channel back into the queue.
Signal ==
    /\ conn = "open"
    /\ consuming' = FALSE
    /\ conn' = "closed"
    /\ cur' = IF phase = "idle" THEN cur ELSE [cur EXCEPT !.sig = TRUE]
    /\ broker' = [broker EXCEPT !.ready = @ + Unacked, !.buffer = <<>>]
    /\ UNCHANGED <<phase, fin>>
    /\ UNCHANGED nonMqVars

\* the server is started again: connect, consuming = True,
\* basic_qos(prefetch_count = the configured value)
Reconnect(prefetch_count) ==
    /\ conn = "closed"
    /\ phase = "idle"
    /\ conn' = "open"
    /\ consuming' = TRUE
    /\ broker' = [broker EXCEPT !.prefetch = prefetch_count]
    /\ UNCHANGED <<phase, cur, fin>>
    /\ UNCHANGED nonMqVars

NextMq ==
    \/ Enqueue
    \/ Push
    \/ \E op \in Operations, j \in Jobs, reply_to \in BOOLEAN :
          Deliver(op, j, reply_to)
    \/ \E ok \in BOOLEAN : HandlerReturns(ok)
    \/ PublishReply
    \/ Ack
    \/ Signal
    \/ \E prefetch_count \in 1..MaxPrefetch : Reconnect(prefetch_count)

SpecMq == Init /\ [][NextMq]_vars

\* ================================================= MountService requests
\* MountService.mount / MountService.unmount called for the nfs target, with
\* the record of which jobs got a success from mount and not yet from
\* unmount, and of whether a driver command failed
RequestMount(j, t, rc) ==
    /\ LET r == Mount(ledger, job, kmounts, j, t, rc)
       IN  /\ Len(r.ledger) <= MaxRows
           /\ Len(r.kmounts[t]) <= MaxStack
           /\ ledger' = r.ledger
           /\ kmounts' = r.kmounts
           /\ hist' = [hist EXCEPT
                         !.holders = IF r.success THEN @ \cup {j} ELSE @,
                         !.failed = @ \/ ("mount" \in r.calls /\ rc # "ok")]
    /\ UNCHANGED job
    /\ UNCHANGED nonRefVars

RequestUnmount(j, t, run) ==
    /\ LET r == Unmount(ledger, job, kmounts, j, t, run)
       IN  /\ ledger' = r.ledger
           /\ kmounts' = r.kmounts
           /\ hist' = [hist EXCEPT
                         !.holders = IF r.success THEN @ \ {j} ELSE @,
                         !.failed = @ \/ ("unmount" \in r.calls /\ run # <<"ok">>)]
    /\ UNCHANGED job
    /\ UNCHANGED nonRefVars

NextRef ==
    \/ \E j \in Jobs, t \in TargetIds, rc \in MountRcs : RequestMount(j, t, rc)
    \/ \E j \in Jobs, t \in TargetIds, run \in ServiceUmountRuns :
          RequestUnmount(j, t, run)
    \/ \E j \in Jobs : JobAdvance(j)
    \/ \E t \in TargetIds : GoStale(t)
    \/ \E t \in TargetIds : Recover(t)

SpecRef == Init /\ [][NextRef]_vars

\* ====================================================== context managers
\* client.py MountContext and context_manager_helpers.py batch_mount_context,
\* used by one caller.  What client.mount / client.unmount return is an
\* input: a success response, an error response, or an exception.
ClientOutcomes == {"success", "error", "raises"}
CtxTargets == TargetIds \cup S3Targets

\* __enter__: anything but a success response ends in a raise
EnterOutcomeAlwaysEnters(out) == "body"

EnterOutcome(out) == IF out = "success" THEN "body" ELSE "enter_raised"

\* __exit__ has no return statement: it returns None, which is falsy
ExitSuppresses == FALSE

\* MountContext(client, request).__enter__()
MountContextEnter(j, t, out) ==
    /\ ctx.pc \in {"new", "exited", "enter_raised"}
    /\ ctx' = [NoCtx EXCEPT
                 !.pc = EnterOutcome(out),
                 !.job = j, !.target = t,
                 !.mount_response = out,
                 !.raised = IF EnterOutcome(out) = "body" THEN "none" ELSE "mount",
                 !.log = <<[op |-> "mount", job |-> j, target |-> t]>>]
    /\ UNCHANGED batch
    /\ UNCHANGED nonCtxVars

\* the body of the with statement runs to its end or raises
Body(raises) ==
    /\ ctx.pc = "body"
    /\ ctx' = [ctx EXCEPT !.pc = "exiting", !.body_raised = raises]
    /\ UNCHANGED batch
    /\ UNCHANGED nonCtxVars

\* __exit__: one client.unmount(self.request); whatever it returns or raises
\* is logged only
MountContextExit(out) ==
    /\ ctx.pc = "exiting"
    /\ ctx' = [ctx EXCEPT
                 !.pc = "exited",
                 !.raised = IF ctx.body_raised /\ ~ExitSuppresses
                            THEN "body" ELSE "none",
                 !.log = Append(@, [op |-> "unmount", job |-> ctx.job,
                                    target |-> ctx.target])]
    /\ UNCHANGED batch
    /\ UNCHANGED nonCtxVars

\* all target lists up to MaxTargets long
TargetLists == UNION {[1..n -> CtxTargets] : n \in 0..MaxTargets}

\* the order of mounting
UnmountOrderForward(mc) == mc

\* reversed(mounted_contexts)
UnmountOrder(mc) == [k \in 1..Len(mc) |-> mc[Len(mc) + 1 - k]]

\* batch_mount_context(client, jobid, targets, host) is entered
BatchEnter(j, targets) ==
    /\ batch.pc \in {"idle", "done"}
    /\ batch' = [NoBatch EXCEPT !.pc = "mounting", !.job = j,
                                !.targets = targets]
    /\ UNCHANGED ctx
    /\ UNCHANGED nonCtxVars

\* one turn of the mount loop: MountContext(client, request).__enter__();
\* a raise leaves the loop for the finally block
BatchMount(out) ==
    /\ batch.pc = "mounting"
    /\ batch.i <= Len(batch.targets)
    /\ LET ok == EnterOutcome(out) = "body"
           entry == [op |-> "mount", idx |-> batch.i,
                     target |-> batch.targets[batch.i], ok |-> ok]
       IN  batch' =
             IF ok
             THEN [batch EXCEPT !.log = Append(@, entry),
                                !.mounted_contexts = Append(@, batch.i),
                                !.i = @ + 1]
             ELSE [batch EXCEPT !.log = Append(@, entry),
                                !.pc = "unwinding",
                                !.raised = "mount",
                                !.pending = UnmountOrder(batch.mounted_contexts)]
    /\ UNCHANGED ctx
    /\ UNCHANGED nonCtxVars

\* yield mounted_contexts: the caller's body runs to its end or raises
BatchYield(raises) ==
    /\ batch.pc = "mounting"
    /\ batch.i > Len(batch.targets)
    /\ batch' = [batch EXCEPT !.pc = "unwinding",
                              !.raised = IF raises THEN "body" ELSE "none",
                              !.pending = UnmountOrder(batch.mounted_contexts)]
    /\ UNCHANGED ctx
    /\ UNCHANGED nonCtxVars

\* one turn of the loop in the finally block: ctx.__exit__(None, None, None)
BatchUnmount(out) ==
    /\ batch.pc = "unwinding"
    /\ batch.pending # <<>>
    /\ batch' = [batch EXCEPT
                   !.pending = Tail(@),
                   !.log = Append(@, [op |-> "unmount",
                                      idx |-> Head(batch.pending),
                                      target |-> batch.targets[Head(batch.pending)],
                                      ok |-> out = "success"])]
    /\ UNCHANGED ctx
    /\ UNCHANGED nonCtxVars

\* the finally block is through; the exception, if any, goes on to the caller
BatchExit ==
    /\ batch.pc = "unwinding"
    /\ batch.pending = <<>>
    /\ batch' = [batch EXCEPT !.pc = "done"]
    /\ UNCHANGED ctx
    /\ UNCHANGED nonCtxVars

NextCtx ==
    \/ \E j \in Jobs, t \in CtxTargets, out \in ClientOutcomes :
          MountContextEnter(j, t, out)
    \/ \E raises \in BOOLEAN : Body(raises)
    \/ \E out \in ClientOutcomes : MountContextExit(out)
    \/ \E j \in Jobs, targets \in TargetLists : BatchEnter(j, targets)
    \/ \E out \in ClientOutcomes : BatchMount(out)
    \/ \E raises \in BOOLEAN : BatchYield(raises)
    \/ \E out \in ClientOutcomes : BatchUnmount(out)
    \/ BatchExit

SpecCtx == Init /\ [][NextCtx]_vars

\* ================================================================ claims
\* a step in which the dispatcher handles mount / unmount message m
MountStep(m) == \E rc \in MountRcs : OnRequestMount(m, rc)
UnmountStep(m) == \E run \in ServiceUmountRuns : OnRequestUnmount(m, run)
OnRequest(m) ==
    OnRequestMismatch(m) \/ MountStep(m) \/ UnmountStep(m) \/ OnRequestUnknown(m)

EntriesOf(kms, t) == IF t \in TargetIds THEN Len(kms[t]) ELSE 0

C2_AtMostOneMount == \A t \in TargetIds : Len(kmounts[t]) <= 1

\* C3: whenever MountService.mount answers success=True, the target's mount
\* path is in the mount table when the response is produced.
C3_SuccessMeansMounted ==
    [][\A m \in Messages :
         (MountStep(m) /\ evt'.success) => EntriesOf(kmounts', m.target_id) > 0]_vars

\* C4: a repeated mount(J, T) answers exactly as the previous mount(J, T) did
\* (success flag and message), and the two perform at most one driver mount.
C4_RepeatIdentical ==
    [][\A m \in Messages :
         (/\ MountStep(m)
          /\ evt.kind = "mount"
          /\ evt.job = m.job_id
          /\ evt.target = m.target_id) =>
           /\ evt'.success = evt.success
           /\ evt'.message = evt.message
           /\ ~("mount" \in evt.calls /\ "mount" \in evt'.calls)]_vars

\* C5: unmount(J, T) for a job without a non-deleted entry answers success,
\* changes no ledger row and makes no driver call.
C5_UnmountNoEntryNoop ==
    [][\A m \in Messages :
         (UnmountStep(m) /\ FindActive(ledger, m.job_id, m.target_id) = {}) =>
           /\ evt'.success
           /\ ledger' = ledger
           /\ evt'.calls = {}]_vars

\* C6: when the driver mount fails, the response is a failure and the ledger
\* is what it was before the request (the inserted entry is discarded).
C6_FailedMountRollsBack ==
    [][\A m \in Messages :
         (MountStep(m) /\ "mount" \in evt'.calls /\ evt'.message = "Failed to mount") =>
           /\ ~evt'.success
           /\ ledger' = ledger
           /\ FindActive(ledger', m.job_id, m.target_id) = {}]_vars

\* C7: when the driver unmount fails, the response is a failure and the
\* job's entry is still non-deleted afterwards.
C7_FailedUnmountRollsBack ==
    [][\A m \in Messages :
         (/\ UnmountStep(m)
          /\ FindActive(ledger, m.job_id, m.target_id) # {}
          /\ evt'.message = "Failed to unmount") =>
           /\ ~evt'.success
           /\ FindActive(ledger', m.job_id, m.target_id) # {}]_vars

\* C8: a message for another node never reaches the handler: the ledger and
\* the mount table are unchanged, no driver call is made, the reply (sent iff
\* reply_to is set) says success=false and the message is nacked, no requeue.
C8_WrongNodeRejected ==
    evt.node = OtherNode =>
      /\ evt.kind = "mismatch"
      /\ ~evt.changed
      /\ evt.calls = {}
      /\ ~evt.success
      /\ evt.reply = (IF evt.reply_to THEN "failure" ELSE "none")
      /\ evt.ack = "nack_no_requeue"

\* C8 witness: a wrong-node message was rejected with a reply while this
\* node has a mounted target and a live ledger row
C8_Witness ==
    /\ evt.node = OtherNode
    /\ evt.reply = "failure"
    /\ \E t \in TargetIds : IsMounted(kmounts[t]) /\ ActiveRows(ledger, t) # {}

\* C9: every driver mount or unmount runs while the performing process holds
\* the mount_unmount lock.
C9_DriverCallsUnderLock == evt.calls # {} => evt.lockHeld

\* C10: at most one user is inside acquire_lock at a time, and every user
\* that polls either enters or times out.
C10_LockExclusiveAndLive ==
    /\ [](Cardinality({p \in Procs : pc[p] = "held"}) <= 1)
    /\ \A p \in Procs : (pc[p] = "polling") ~> (pc[p] \in {"held", "timedout"})

\* C10 witness: one user holds the lock while another has polled and waits
C10_Witness ==
    \E p, q \in Procs : pc[p] = "held" /\ pc[q] = "polling" /\ polls[q] > 0

\* C11: a lock user whose wait timed out got the lock-timeout error response
\* and its call published no request and wrote no ledger row.
C11_TimeoutSkipsBody ==
    \A p \in Procs :
       pc[p] = "timedout" =>
         /\ cl[p].resp = "lock_timeout"
         /\ ~cl[p].published
         /\ ~cl[p].wrote

\* C11 witness: a user timed out while another holds the lock
C11_Witness ==
    \E p, q \in Procs :
       /\ pc[p] = "timedout"
       /\ pc[q] = "held"
       /\ cl[q] = NoCall

\* C12: a user's file description holds the lock only while the user is
\* inside the context (so every exit path has released it), and when the
\* lock is free and a user is waiting, the lock is acquired again.
C12_ReleasedOnEveryExit ==
    /\ [](\A p \in Procs : p \in flockOwner => pc[p] = "held")
    /\ \A q \in Procs :
         (pc[q] = "polling" /\ flockOwner = {}) ~> (flockOwner # {})

\* C12 witness: a body has raised, the lock is free and another user waits
C12_Witness ==
    \E p, q \in Procs :
       /\ cl[p].resp = "raised"
       /\ pc[p] = "idle"
       /\ flockOwner = {}
       /\ pc[q] = "polling"
       /\ polls[q] > 0

LiveRecord(t) ==
    \/ mount_processes[t] # NoPid /\ mount_processes[t] \in alive
    \/ recon_processes[t] # NoPid /\ recon_processes[t] \in alive

\* no terminated child is still waiting for the reaper or a cleanup
Settled ==
    /\ up
    /\ reaper # "starting"
    /\ \A t \in S3Targets :
          mount_processes[t] # NoPid => mount_processes[t] \in alive

\* C14: with the server running and no terminated child left to reap, a PID
\* file exists for a target if and only if the process registry holds a
\* record for the target whose pid is a live child.
C14_PidFileIffLiveRecord ==
    Settled => \A t \in S3Targets : (pidfile[t] # NoPid) <=> LiveRecord(t)

\* ------------------------------------------------------------ C15
\* C15: a step that stops the server process (signal, keyboard interrupt,
\* teardown) terminates no child and removes no PID file.
C15_ShutdownKeepsChildren ==
    [][(up /\ ~up') => (alive' = alive /\ pidfile' = pidfile)]_vars

\* ------------------------------------------------------------ C16
\* C16: a request that was being processed when the shutdown signal arrived
\* has run to completion with its reply published and its message
\* acknowledged, and no message is in process that was started after the
\* signal.
C16_SignalWaitsForCurrent ==
    /\ fin.sig => (fin.reply_to => fin.published) /\ fin.ack = "ack"
    /\ (phase # "idle" /\ ~cur.sig) => conn = "open"

\* ------------------------------------------------------------ C17
\* C17: every consumed message is acknowledged exactly once and never
\* requeued: positively when the handler produced a response, negatively
\* without requeue when the body is malformed.
C17_AckOnceNackMalformed ==
    /\ lres.kind \in {"mount", "unmount", "unknown"} => lres.acks = <<"ack">>
    /\ lres.kind = "malformed" => lres.acks = <<"nack_no_requeue">>

\* ------------------------------------------------------------ C18
\* a row says mounted only if the target is mounted, and a mounted target
\* has a row on the node
LedgerMatchesMounts ==
    \A t \in S3Targets :
       /\ LegacyMounted(ledger, t) # {} => fuse[t] = "ok"
       /\ fuse[t] = "ok" =>
            \E i \in RowIds(ledger) : /\ ledger[i].backup_target_id = t
                                      /\ ledger[i].host = NodeId

\* C18: when the node finishes a request whose client call has timed out,
\* the ledger is consistent with the physical state.
C18_TimeoutLeavesLedgerConsistent ==
    [][(rpc.client = "timedout" /\ rpc.state = "queued" /\ rpc'.state = "replied")
         => LedgerMatchesMounts']_vars

\* ------------------------------------------------------------ C19
\* job j holds the one active ledger entry of s3 target t, the mount path is
\* accessible and the Reconciler has adopted the live child
AdoptedAndActive(j, t) ==
    /\ recon_processes[t] # NoPid
    /\ recon_processes[t] \in alive
    /\ fuse[t] = "ok"
    /\ FindActive(ledger, j, t) # {}
    /\ ActiveRows(ledger, t) = FindActive(ledger, j, t)
    /\ JobActive(job, j)

\* C19: MountService.unmount(j, t) in that state terminates the adopted
\* child and leaves t unmounted, with no in-memory record and no PID file.
C19_UnmountUsesAdoptedRecord ==
    [][\A j \in Jobs, t \in S3Targets :
         (AdoptedAndActive(j, t) /\ ServiceUnmountS3(j, t)) =>
            /\ recon_processes[t] \notin alive'
            /\ fuse'[t] # "ok"
            /\ mount_processes'[t] = NoPid
            /\ recon_processes'[t] = NoPid
            /\ pidfile'[t] = NoPid]_vars

\* ------------------------------------------------------------ C20
\* a PID file names a dead process while the mount path is still in the
\* mount table
StalePidFile(t) ==
    /\ pidfile[t] # NoPid
    /\ pidfile[t] \notin alive
    /\ fuse[t] # "none"

\* C20: a startup Reconciler run that finds such a target deletes the PID
\* file, invokes the driver's stale-mount cleanup and leaves mounted=false
\* on every ledger row of the target on the node.
C20_StalePidFileCleaned ==
    [][\A t \in S3Targets :
         (StalePidFile(t) /\ \E c \in BOOLEAN : Startup(c)) =>
            /\ pidfile'[t] = NoPid
            /\ "cleanup_stale_mount" \in sres'.calls
            /\ \A i \in HostRows(ledger', t) : ~ledger'[i].mounted]_vars

\* ------------------------------------------------------------ C21
\* C21: the ledger holds at most one row per (jobid, backup_target_id,
\* host), also after a job has unmounted a target and mounted it again.
C21_OneRowPerTriple ==
    \A i, k \in RowIds(ledger) :
       (/\ ledger[i].jobid = ledger[k].jobid
        /\ ledger[i].backup_target_id = ledger[k].backup_target_id
        /\ ledger[i].host = ledger[k].host) => i = k

\* ------------------------------------------------------------ C22
\* a legacy client step in which an unmount call of a job that has a
\* mounted entry returns, the server not having failed
UnmountReturns ==
    /\ (\E j \in Jobs, t \in S3Targets : ClientUnmount(j, t)) \/ ClientReceive
    /\ cres'.kind = "unmount"
    /\ cres'.entry
    /\ cres'.status # "pending"
    /\ cres'.msg # "server_error"

\* C22: DMSClient.unmount sends the request iff the job's entry is the only
\* mounted entry of (target, host); the response has unmounted accordingly
\* and active_mounts_remaining = mounted entries - 1; only the job's row
\* changes, to mounted=false.
C22_UnmountRespondsByCount ==
    [][/\ \A j \in Jobs, t \in S3Targets :
            (ClientUnmount(j, t) /\ cres'.entry) =>
               (cres'.sent <=> Cardinality(LegacyMounted(ledger, t)) = 1)
       /\ UnmountReturns =>
            /\ cres'.unmounted = {cres'.sent}
            /\ cres'.active_mounts_remaining = {cres'.mount_count - 1}
            /\ \A i \in RowIds(ledger) :
                  ledger'[i] # ledger[i] =>
                     /\ ledger[i].jobid = cres'.job
                     /\ ~ledger'[i].mounted]_vars

\* ------------------------------------------------------------ C23
\* job j holds the one non-deleted mounted entry of (t, host)
OnlyLiveMounted(j, t) ==
    LET live == {i \in LegacyMounted(ledger, t) : ~ledger[i].deleted}
    IN  /\ Cardinality(live) = 1
        /\ \A i \in live : ledger[i].jobid = j

\* C23: soft-deleted entries do not count: with one non-deleted mounted
\* entry, whatever soft-deleted mounted entries there are, unmounting that
\* job sends the physical unmount.
C23_SoftDeletedNotCounted ==
    [][\A j \in Jobs, t \in S3Targets :
         (OnlyLiveMounted(j, t) /\ ClientUnmount(j, t)) => cres'.sent]_vars

\* ------------------------------------------------------------ C24
\* C24: DMSClient.unmount for a job without a mounted entry on (t, host)
\* returns a failure saying that no active mount was found, sends nothing
\* and changes no row.
C24_NoEntryNoActiveMount ==
    [][\A j \in Jobs, t \in S3Targets :
         (/\ \A i \in LegacyMounted(ledger, t) : ledger[i].jobid # j
          /\ ClientUnmount(j, t)) =>
            /\ cres'.status = "error"
            /\ cres'.msg = "no_active_mount"
            /\ ~cres'.sent
            /\ rpc' = rpc
            /\ ledger' = ledger]_vars

\* ------------------------------------------------------------ C25
\* the rows of (t, host) with mounted=true
MountedRows(l, t) ==
    {i \in RowIds(l) : /\ l[i].backup_target_id = t
                       /\ l[i].host = NodeId
                       /\ l[i].mounted}

\* C25: DMSClient.mount sends a mount request only when no row of
\* (target, host) is mounted; a job that mounts while another job's row is
\* mounted gets reused_existing=true and physically_mounted=false; every
\* successful mount of a job that had no mounted row adds one mounted row.
C25_MountSendsOnlyFirst ==
    [][/\ \A j \in Jobs, t \in S3Targets :
            ClientMount(j, t) =>
               /\ cres'.sent => MountedRows(ledger, t) = {}
               /\ (/\ MountedRows(ledger, t) # {}
                   /\ \A i \in MountedRows(ledger, t) : ledger[i].jobid # j) =>
                     /\ cres'.status = "success"
                     /\ cres'.reused_existing = {TRUE}
                     /\ cres'.physically_mounted = {FALSE}
                     /\ Cardinality(MountedRows(ledger', t)) =
                           Cardinality(MountedRows(ledger, t)) + 1
       /\ (ClientReceive /\ cres'.kind = "mount" /\ cres'.status = "success") =>
            /\ cres'.physically_mounted = {TRUE}
            /\ Cardinality(MountedRows(ledger', cres'.target)) =
                  Cardinality(MountedRows(ledger, cres'.target)) + 1]_vars

\* two jobs have mounted the target, the second without a request
C25_Witness ==
    /\ cres.kind = "mount"
    /\ cres.status = "success"
    /\ ~cres.sent
    /\ cres.physically_mounted = {FALSE}
    /\ \E t \in S3Targets :
          {ledger[i].jobid : i \in MountedRows(ledger, t)} = Jobs

\* ------------------------------------------------------------ C26
\* the unmount calls a MountContext has issued
CtxUnmounts == SelectSeq(ctx.log, LAMBDA e : e.op = "unmount")

\* C26: MountContext (client.py): a failed mount on entry raises and no
\* unmount is issued; after a successful mount exactly one unmount of the
\* same job and target is issued on exit, whether the body raised or not,
\* and the body's exception is not suppressed.
C26_MountContextUnmountsOnce ==
    /\ ctx.mount_response \in {"error", "raises"} =>
          /\ ctx.pc = "enter_raised"
          /\ ctx.raised = "mount"
          /\ CtxUnmounts = <<>>
    /\ ctx.pc \in {"body", "exiting"} => CtxUnmounts = <<>>
    /\ ctx.pc = "exited" =>
          /\ ctx.mount_response = "success"
          /\ CtxUnmounts = <<[op |-> "unmount", job |-> ctx.log[1].job,
                              target |-> ctx.log[1].target]>>
          /\ ctx.body_raised <=> ctx.raised = "body"

\* the body raised, the unmount was issued and the exception went on
C26_Witness ==
    /\ ctx.pc = "exited"
    /\ ctx.body_raised
    /\ ctx.raised = "body"
    /\ Len(ctx.log) = 2

\* ------------------------------------------------------------ C27
BatchMounts == SelectSeq(batch.log, LAMBDA e : e.op = "mount")
BatchUnmounts == SelectSeq(batch.log, LAMBDA e : e.op = "unmount")
\* list positions mounted with success, in mount order
BatchMounted == SelectSeq(BatchMounts, LAMBDA e : e.ok)

\* C27: batch_mount_context mounts in list order and stops at the first
\* failed mount; on exit or after a failed mount it unmounts every mounted
\* target once, in reverse mount order, going on after a failed unmount.
C27_BatchUnmountsInReverse ==
    /\ \A k \in 1..Len(BatchMounts) :
          /\ BatchMounts[k].idx = k
          /\ BatchMounts[k].target = batch.targets[k]
          /\ k < Len(BatchMounts) => BatchMounts[k].ok
    /\ batch.pc = "mounting" => BatchUnmounts = <<>>
    /\ Len(BatchUnmounts) <= Len(BatchMounted)
    /\ \A k \in 1..Len(BatchUnmounts) :
          BatchUnmounts[k].idx = BatchMounted[Len(BatchMounted) + 1 - k].idx
    /\ batch.pc = "done" => Len(BatchUnmounts) = Len(BatchMounted)

\* two targets were mounted, the third mount failed, the first unmount
\* failed and the second was still issued
C27_Witness ==
    /\ batch.pc = "done"
    /\ batch.raised = "mount"
    /\ Len(BatchMounted) = 2
    /\ Len(BatchUnmounts) = 2
    /\ ~BatchUnmounts[1].ok

\* ------------------------------------------------------------ C28
\* C28: on a node at most one request is inside _on_request at any time,
\* and the handlers (ledger updates, driver calls) run in the order in which
\* the requests were dequeued, i.e. in the order of their delivery tags.
C28_OneAtATimeInDequeueOrder ==
    /\ Len(broker.started) - Len(broker.ended) \in {0, 1}
    /\ phase = "idle" <=> Len(broker.started) = Len(broker.ended)
    /\ Len(broker.fx) <= Len(broker.started)
    /\ \A k \in 1..Len(broker.fx) : broker.fx[k] = broker.started[k]
    /\ \A a, b \in 1..Len(broker.fx) : a < b => broker.fx[a] < broker.fx[b]
    /\ \A k \in 1..Len(broker.buffer) :
          \A a \in 1..Len(broker.started) : broker.started[a] < broker.buffer[k]

\* a second request has been dequeued while the first one is handled, and
\* one request has been handled before
C28_Witness ==
    /\ phase = "handling"
    /\ broker.buffer # <<>>
    /\ Len(broker.fx) >= 1

\* ------------------------------------------------------------ C29
\* C29: once every job that got a success from mount(target, node) has got
\* a success from unmount, and no driver call has failed, the target is not
\* in the mount table and no non-deleted ledger row of (target, node) is left.
C29_AllUnmountedLeavesNothing ==
    \A t \in TargetIds :
       (hist.holders = {} /\ ~hist.failed) =>
          /\ kmounts[t] = <<>>
          /\ ActiveRows(ledger, t) = {}

C31_ReconcilerUnmountsOrphans ==
    evt.kind = "reconcile" =>
       \A t \in TargetIds :
          (/\ HostRows(ledger, t) # {}
           /\ evt.recon[t].probe
           /\ evt.recon[t].count = 0) =>
             /\ "unmount" \in evt.calls
             /\ ~IsMounted(kmounts[t]) =>
                   \A i \in HostRows(ledger, t) : ~ledger[i].mounted

\* ------------------------------------------------------------ C32
\* The ledger table is shared: the MountService of another node inserts its
\* own rows (host = its node id, mounted=true after its mount) ...
OtherNodeMount(j, t) ==
    /\ Len(ledger) < MaxRows
    /\ ledger' = Append(ledger, [NewLedgerRow(j, t) EXCEPT !.host = OtherNode,
                                                           !.mounted = TRUE])
    /\ UNCHANGED <<job, kmounts, evt>>
    /\ UNCHANGED nonSvcVars

\* ... and soft-deletes them
OtherNodeUnmount(i) ==
    /\ i \in RowIds(ledger)
    /\ ledger[i].host = OtherNode
    /\ ~ledger[i].deleted
    /\ ledger' = SoftDelete(ledger, {i})
    /\ UNCHANGED <<job, kmounts, evt>>
    /\ UNCHANGED nonSvcVars

ReconcileRuns == [TargetIds -> ServiceUmountRuns]

NextNodes ==
    \/ \E m \in Messages, rc \in MountRcs : OnRequestMount(m, rc)
    \/ \E m \in Messages, run \in ServiceUmountRuns : OnRequestUnmount(m, run)
    \/ \E rs \in ReconcileRuns : Reconcile(rs)
    \/ \E j \in Jobs : JobAdvance(j)
    \/ \E j \in Jobs, t \in TargetIds : OtherNodeMount(j, t)
    \/ \E i \in 1..MaxRows : OtherNodeUnmount(i)

\* this node's server and reconciler beside another node's writes
SpecNodes == Init /\ [][NextNodes]_vars

\* the rows of node n, in ledger order
RowsOf(l, n) == SelectSeq(l, LAMBDA r : r.host = n)

\* C32: a Reconciler run on this node decides as it would with the other
\* nodes' rows absent (same driver calls, same mount table, same rows of this
\* node afterwards) and leaves the rows of other nodes as they were, adding
\* none.
C32_ReconcilerOwnRowsOnly ==
    [][\A rs \in ReconcileRuns :
         (evt'.kind = "reconcile" /\ Reconcile(rs)) =>
            LET own == RowsOf(ledger, NodeId)
                alone == ReconcileAll(own, job, kmounts, ReconcileTargets(own), rs)
            IN  /\ evt'.calls = alone.calls
                /\ kmounts' = alone.kmounts
                /\ RowsOf(ledger', NodeId) = alone.ledger
                /\ RowsOf(ledger', OtherNode) = RowsOf(ledger, OtherNode)
                /\ Len(ledger') = Len(ledger)]_vars

\* a run that changed something while a mounted row of the other node for
\* the same target was in the ledger
C32_Witness ==
    /\ evt.kind = "reconcile"
    /\ evt.changed
    /\ \E i \in RowIds(ledger) : \E k \in RowIds(ledger) :
         /\ ledger[i].host = OtherNode
         /\ ledger[i].mounted
         /\ ~ledger[i].deleted
         /\ ledger[k].host = NodeId
         /\ ledger[k].backup_target_id = ledger[i].backup_target_id

\* ------------------------------------------------------------ C33
nonPidDirVars == <<svcVars, lockVars, s3Vars, legacyVars, mqVars, ctxVars, hist, drv, race>>

\* S3VaultFuseManager._is_process_alive: psutil finds a running process
IsProcessAlive(procs, pid) == procs[pid] # "dead"

\* S3VaultFuseManager._load_existing_pids over the files of the directory:
\* the files left and the records made
LoadPidDir(files, procs) ==
    LET pid(t) == files[t]                  \* _read_pid_file, None for int() errors
        skip(t) == pid(t) \in {NoPid, Unparseable}
        load(t) == ~skip(t) /\ IsProcessAlive(procs, pid(t))
    IN  [files |-> [t \in PidFiles |->
                      IF skip(t) \/ load(t) THEN files[t] ELSE NoPid],
         processes |-> [t \in PidFiles |->
                      IF load(t) THEN [pid |-> pid(t), loaded_from_disk |-> TRUE]
                      ELSE NoRecord]]

\* while no manager runs, files are left behind or written in the directory
PidDirWrite(t, c) ==
    /\ piddir.phase = "down"
    /\ piddir' = [piddir EXCEPT !.files[t] = c]
    /\ UNCHANGED nonPidDirVars

\* a pid ends, or is given to a new s3vaultfuse or to another program
ProcChange(p, k) ==
    /\ piddir.phase = "down"
    /\ piddir' = [piddir EXCEPT !.procs[p] = k]
    /\ UNCHANGED nonPidDirVars

\* S3VaultFuseManager.__init__
ManagerStart ==
    /\ piddir.phase = "down"
    /\ LET m == LoadPidDir(piddir.files, piddir.procs)
       IN  piddir' = [piddir EXCEPT !.phase = "loaded",
                                    !.found = piddir.files,
                                    !.files = m.files,
                                    !.processes = m.processes]
    /\ UNCHANGED nonPidDirVars

\* the server process is killed: the records go, the files stay
ManagerKilled ==
    /\ piddir.phase = "loaded"
    /\ piddir' = [piddir EXCEPT !.phase = "down",
                                !.processes = NoPidDir.processes]
    /\ UNCHANGED nonPidDirVars

NextPidDir ==
    \/ \E t \in PidFiles, c \in PidFileContents : PidDirWrite(t, c)
    \/ \E p \in Pids, k \in ProcKinds : ProcChange(p, k)
    \/ ManagerStart
    \/ ManagerKilled

\* the manager's startup scan of the PID directory
SpecPidDir == Init /\ [][NextPidDir]_vars

\* C33: after the startup scan, every PID file found whose pid is a live
\* s3vaultfuse process has a record marked loaded_from_disk; every other
\* file found (dead pid, live pid of another program, unparseable content)
\* is deleted and has no record.
C33_StartupAdoptsOrDeletes ==
    piddir.phase = "loaded" =>
       \A t \in PidFiles :
          piddir.found[t] # NoPid =>
             IF /\ piddir.found[t] \in Pids
                /\ piddir.procs[piddir.found[t]] = "fuse"
             THEN piddir.processes[t] =
                     [pid |-> piddir.found[t], loaded_from_disk |-> TRUE]
             ELSE /\ piddir.files[t] = NoPid
                  /\ piddir.processes[t] = NoRecord

\* ------------------------------------------------------------ C34
\* what a driver call leaves alone besides the mount table
nonDrvVars ==
    <<ledger, job, evt, lockVars, s3Vars, legacyVars, mqVars, ctxVars, hist,
      piddir, race>>

\* mounts stacked on one path by direct driver calls
MaxDrvStack == 3

\* in /proc/mounts but not answering
IsStale(km) == Len(km) > 0 /\ ~km[Len(km)]

\* the commands NFSDriver.mount runs
MountCommands(km, rc) ==
    IF IsMounted(km) THEN <<>> ELSE <<"mount">>

\* the commands NFSDriver.unmount runs, run = their results in order
UmountCommands(km, run) ==
    IF ~IsMounted(km) THEN <<>>
    ELSE IF run[1] = "ok" THEN <<"umount">>
    ELSE IF run[1] = "timeout" THEN <<"umount", "umount -f -l">>
    ELSE IF run[2] = "timeout" THEN <<"umount", "umount -l", "umount -f -l">>
    ELSE <<"umount", "umount -l">>

CleanupResults == {"ok", "fail"}

\* NFSDriver.mount when is_mounted passed and the listdir after it raised
\* (lines 45-50): cleanup_stale_mount, then the mount command
NFSMountStale(km, rc, cleanup) ==
    IF cleanup = "fail"
    THEN [ret |-> FALSE, km |-> [km EXCEPT ![Len(km)] = FALSE],
          cmds |-> <<"cleanup_stale_mount">>]
    ELSE [ret |-> rc = "ok",
          km |-> IF rc = "ok" THEN Append(Pop(km), TRUE) ELSE Pop(km),
          cmds |-> <<"cleanup_stale_mount", "mount">>]

\* NFSDriver.mount called on the path of target t; dies: the export stops
\* answering between the is_mounted probe and the listdir that follows it
NfsMount(t, rc, dies, cleanup) ==
    /\ LET window == dies /\ IsMounted(kmounts[t])
           n == NFSMount(kmounts[t], rc)
           d == IF window THEN NFSMountStale(kmounts[t], rc, cleanup)
                ELSE [ret |-> n.ret, km |-> n.km,
                      cmds |-> MountCommands(kmounts[t], rc)]
       IN  /\ Len(d.km) <= MaxDrvStack
           /\ kmounts' = [kmounts EXCEPT ![t] = d.km]
           /\ drv' = [op |-> "mount", target |-> t,
                      mounted |-> IsMounted(kmounts[t]),
                      stale |-> IsStale(kmounts[t]),
                      window |-> window, cleanup |-> cleanup,
                      run |-> <<rc>>, cmds |-> d.cmds, ret |-> d.ret]
    /\ UNCHANGED nonDrvVars

\* NFSDriver.unmount called on the path of target t
NfsUnmount(t, run) ==
    /\ LET d == NFSUnmount(kmounts[t], run)
       IN  /\ kmounts' = [kmounts EXCEPT ![t] = d.km]
           /\ drv' = [op |-> "unmount", target |-> t,
                      mounted |-> IsMounted(kmounts[t]),
                      stale |-> IsStale(kmounts[t]),
                      window |-> FALSE, cleanup |-> "none",
                      run |-> run, cmds |-> UmountCommands(kmounts[t], run),
                      ret |-> d.ret]
    /\ UNCHANGED nonDrvVars

\* the export stops answering / answers again between driver calls
DrvGoStale(t) ==
    /\ IsMounted(kmounts[t])
    /\ kmounts' = [kmounts EXCEPT ![t][Len(kmounts[t])] = FALSE]
    /\ UNCHANGED drv
    /\ UNCHANGED nonDrvVars

DrvRecover(t) ==
    /\ IsStale(kmounts[t])
    /\ kmounts' = [kmounts EXCEPT ![t][Len(kmounts[t])] = TRUE]
    /\ UNCHANGED drv
    /\ UNCHANGED nonDrvVars

NextNfs ==
    \/ \E t \in TargetIds, rc \in MountRcs, dies \in BOOLEAN,
          cleanup \in CleanupResults : NfsMount(t, rc, dies, cleanup)
    \/ \E t \in TargetIds, run \in UmountRuns : NfsUnmount(t, run)
    \/ \E t \in TargetIds : DrvGoStale(t)
    \/ \E t \in TargetIds : DrvRecover(t)

\* the NFS driver called directly
SpecNfs == Init /\ [][NextNfs]_vars

UmountOrder == <<"umount", "umount -l", "umount -f -l">>

\* C34: an NFS unmount of a mounted path runs the plain, the lazy and the
\* force-lazy umount in that order and stops at the first that succeeds; it
\* returns success exactly when the last command run succeeded, and failure
\* only after all three were run.
C34_PlainLazyForce ==
    (drv.op = "unmount" /\ drv.mounted) =>
       LET n == Len(drv.cmds)
       IN  /\ n >= 1
           /\ drv.cmds = SubSeq(UmountOrder, 1, n)
           /\ \A i \in 1..(n - 1) : drv.run[i] # "ok"
           /\ drv.ret <=> drv.run[n] = "ok"
           /\ ~drv.ret => n = 3

\* ------------------------------------------------------------ C35
NextDrivers ==
    \/ \E t \in TargetIds, rc \in MountRcs, dies \in BOOLEAN,
          cleanup \in CleanupResults : NfsMount(t, rc, dies, cleanup)
    \/ \E t \in TargetIds, run \in UmountRuns : NfsUnmount(t, run)
    \/ \E t \in TargetIds : DrvGoStale(t)
    \/ \E t \in TargetIds : DrvRecover(t)
    \/ \E t \in S3Targets, out \in SpawnOutcomes : DriverMount(t, out)
    \/ \E t \in S3Targets, eff \in UnmountEffects : DriverUnmount(t, eff)
    \/ \E p \in Pids, leaves \in BOOLEAN : ChildDies(p, leaves)

\* NFSDriver and S3Driver called directly
SpecDrivers == Init /\ [][NextDrivers]_vars

C36_StaleCleanedBeforeMount ==
    (drv.op = "mount" /\ drv.stale) =>
       /\ drv.cmds # <<>>
       /\ drv.cmds[1] = "cleanup_stale_mount"
       /\ drv.cleanup = "fail" => (~drv.ret /\ drv.cmds = <<"cleanup_stale_mount">>)

\* ------------------------------------------------------------ C37
\* C37: when an s3 mount handled by the server fails after it spawned a
\* child, then on return the child is not running and the target has no
\* in-memory record and no PID file.
C37_FailedMountLeavesNothing ==
    [][\A out \in SpawnOutcomes, eff \in UnmountEffects :
         (/\ LegacyOnRequest(out, eff)
          /\ rpc.action = "mount"
          /\ nextPid' # nextPid
          /\ lres'.status = "error") =>
            /\ nextPid \notin alive'
            /\ processes'[rpc.target] = NoPid
            /\ pidfile'[rpc.target] = NoPid]_vars

\* ------------------------------------------------------------ C38
\* C38: when an s3 driver unmount for a target returns, with success or with
\* failure, the target has no in-memory process record and no PID file.
C38_UnmountForgetsChild ==
    [][\A t \in S3Targets, eff \in UnmountEffects :
         DriverUnmount(t, eff) =>
            /\ mount_processes'[t] = NoPid
            /\ pidfile'[t] = NoPid]_vars

\* ------------------------------------------------------------ C39
\* MountService.mount and _reconcile_target statement by statement.  The
\* two run in different processes (the server and the CLI `reconcile`
\* command) on the same database and the same mount table, and no lock is
\* taken by either.
nonRaceVars ==
    <<evt, lockVars, s3Vars, legacyVars, mqVars, ctxVars, hist, piddir, drv>>

Running(at) == at \notin {"idle", "done"}

\* mount, lines 60-84: the existing-row test, then add + commit
RaceMountBegin(j, t) ==
    /\ race.m.pc = "idle"
    /\ IF FindActive(ledger, j, t) # {}
       THEN /\ race' = [race EXCEPT !.m.pc = "done", !.m.job = j,
                                    !.m.target = t, !.m.success = TRUE,
                                    !.overlap = @ \/ Running(race.r.pc)]
            /\ UNCHANGED ledger
       ELSE /\ Len(ledger) < MaxRows
            /\ ledger' = Append(ledger, NewLedgerRow(j, t))
            /\ race' = [race EXCEPT !.m.pc = "inserted", !.m.job = j,
                                    !.m.target = t, !.m.row = Len(ledger) + 1,
                                    !.overlap = @ \/ Running(race.r.pc)]
    /\ UNCHANGED <<job, kmounts>>
    /\ UNCHANGED nonRaceVars

\* mount, line 88: active_count = self._compute_active_count(...)
RaceMountCount ==
    /\ race.m.pc = "inserted"
    /\ race' = [race EXCEPT !.m.pc = "counted",
                  !.m.count = ComputeActiveCount(ledger, job, race.m.target)]
    /\ UNCHANGED <<ledger, job, kmounts>>
    /\ UNCHANGED nonRaceVars

\* mount, line 92: self._is_mounted(target)
RaceMountProbe ==
    /\ race.m.pc = "counted"
    /\ race' = [race EXCEPT !.m.pc = "probed",
                  !.m.probe = IsMounted(kmounts[race.m.target])]
    /\ UNCHANGED <<ledger, job, kmounts>>
    /\ UNCHANGED nonRaceVars

\* mount, lines 92-94 and 103: the branch, with the driver mount if taken
RaceMountPerform(rc) ==
    /\ race.m.pc = "probed"
    /\ LET t == race.m.target
           branch == MountBranch(race.m.count, race.m.probe)
           pm == PerformMount(kmounts[t], rc)
       IN  IF branch = "mount"
           THEN /\ Len(pm.km) <= MaxStack
                /\ kmounts' = [kmounts EXCEPT ![t] = pm.km]
                /\ race' = [race EXCEPT
                              !.m.pc = IF pm.raised THEN "done" ELSE "mounted",
                              !.m.success = FALSE]
           ELSE /\ race' = [race EXCEPT
                              !.m.pc = IF branch = "reuse" THEN "reusing" ELSE "done",
                              !.m.success = (branch # "reuse")]
                /\ UNCHANGED kmounts
    /\ UNCHANGED <<ledger, job>>
    /\ UNCHANGED nonRaceVars

\* mount, lines 96-106: the update of the rows, commit, the success response
RaceMountUpdate ==
    /\ race.m.pc \in {"mounted", "reusing"}
    /\ ledger' = IF race.m.pc = "mounted"
                 THEN SetMounted(ledger, ActiveRows(ledger, race.m.target), TRUE)
                 ELSE SetMounted(ledger, {race.m.row}, TRUE)
    /\ race' = [race EXCEPT !.m.pc = "done", !.m.success = TRUE]
    /\ UNCHANGED <<job, kmounts>>
    /\ UNCHANGED nonRaceVars

\* reconcile_on_startup, lines 37-42: the targets of this host's rows
RaceReconBegin ==
    /\ race.r.pc = "idle"
    /\ race' = [race EXCEPT !.r.pc = "selected",
                            !.r.todo = ReconcileTargets(ledger),
                            !.overlap = @ \/ Running(race.m.pc)]
    /\ UNCHANGED <<ledger, job, kmounts>>
    /\ UNCHANGED nonRaceVars

\* the loop is over: reconciliation complete
RaceReconEnd ==
    /\ race.r.pc = "selected"
    /\ race.r.todo = {}
    /\ race' = [race EXCEPT !.r.pc = "done"]
    /\ UNCHANGED <<ledger, job, kmounts>>
    /\ UNCHANGED nonRaceVars

\* _reconcile_target, line 158: active_count
RaceReconCount(t) ==
    /\ race.r.pc = "selected"
    /\ t \in race.r.todo
    /\ race' = [race EXCEPT !.r.pc = "counted", !.r.target = t,
                  !.r.todo = @ \ {t},
                  !.r.count = ComputeActiveCount(ledger, job, t)]
    /\ UNCHANGED <<ledger, job, kmounts>>
    /\ UNCHANGED nonRaceVars

\* _reconcile_target, line 162: is_mounted
RaceReconProbe ==
    /\ race.r.pc = "counted"
    /\ race' = [race EXCEPT !.r.pc = "probed",
                  !.r.probe = IsMounted(kmounts[race.r.target])]
    /\ UNCHANGED <<ledger, job, kmounts>>
    /\ UNCHANGED nonRaceVars

\* _reconcile_target, lines 172-216: the case taken, its driver call and its
\* update of the rows, commit
RaceReconAct(run) ==
    /\ race.r.pc = "probed"
    /\ LET t == race.r.target
           branch == ReconcileBranch(race.r.count, race.r.probe)
           pu == PerformUnmount(kmounts[t], run)
       IN  /\ kmounts' = IF branch = "unmount"
                         THEN [kmounts EXCEPT ![t] = pu.km] ELSE kmounts
           /\ ledger' =
                IF branch = "mark_unmounted"
                THEN SetMounted(ledger, ActiveRows(ledger, t), FALSE)
                ELSE IF branch = "unmount" /\ ~pu.raised
                THEN SetMounted(ledger, HostRows(ledger, t), FALSE)
                ELSE IF branch = "adopt"
                THEN SetMounted(ledger, ActiveRows(ledger, t), TRUE)
                ELSE ledger
           /\ race' = [race EXCEPT !.r.pc = "selected",
                         !.r.unmounted = @ \/ (/\ branch = "unmount"
                                                /\ ~pu.raised
                                                /\ pu.km # kmounts[t])]
    /\ UNCHANGED job
    /\ UNCHANGED nonRaceVars

\* both have returned: the next request, the next run
RaceReturn ==
    /\ ~Running(race.m.pc)
    /\ ~Running(race.r.pc)
    /\ race # NoRace
    /\ race' = NoRace
    /\ UNCHANGED <<ledger, job, kmounts>>
    /\ UNCHANGED nonRaceVars

NextRace ==
    \/ \E j \in Jobs, t \in TargetIds : RaceMountBegin(j, t)
    \/ RaceMountCount
    \/ RaceMountProbe
    \/ \E rc \in MountRcs : RaceMountPerform(rc)
    \/ RaceMountUpdate
    \/ RaceReconBegin
    \/ RaceReconEnd
    \/ \E t \in TargetIds : RaceReconCount(t)
    \/ RaceReconProbe
    \/ \E run \in ServiceUmountRuns : RaceReconAct(run)
    \/ RaceReturn
    \/ \E j \in Jobs : JobAdvance(j)

\* a mount request and a reconcile run, interleaved
SpecRace == Init /\ [][NextRace]_vars

\* C39: when a reconcile run and a mount request that were in progress at
\* the same time have both finished, the mount request answered success and
\* its job is still active, the run has not left the target unmounted.
C39_ReconcileKeepsFreshMount ==
    (/\ race.m.pc = "done"
     /\ race.r.pc = "done"
     /\ race.overlap
     /\ race.m.success
     /\ JobActive(job, race.m.job)) =>
        ~(race.r.unmounted /\ ~IsMounted(kmounts[race.m.target]))

\* ------------------------------------------------------------ C40
\* the state a failed unmount of the last user leaves: the job's row of the
\* target is soft-deleted, no active job remains and the target is still in
\* the mount table
UnmountPending(j, t) ==
    /\ FindActive(ledger, j, t) = {}
    /\ \E i \in HostRows(ledger, t) : ledger[i].jobid = j /\ ledger[i].deleted
    /\ CountOf(ledger, t) = 0
    /\ Len(kmounts[t]) > 0

\* C40: an unmount repeated after the last user's unmount failed at the
\* driver calls the driver unmount again, and when it answers success the
\* target has left the mount table and every row of (target, this node) has
\* mounted=false.
C40_RepeatedUnmountRetries ==
    [][\A m \in Messages, run \in ServiceUmountRuns :
         (/\ OnRequestUnmount(m, run)
          /\ m.target_id \in TargetIds
          /\ UnmountPending(m.job_id, m.target_id)) =>
            /\ "unmount" \in evt'.calls
            /\ evt'.success =>
                  /\ kmounts'[m.target_id] = Pop(kmounts[m.target_id])
                  /\ \A i \in HostRows(ledger', m.target_id) : ~ledger'[i].mounted]_vars

====
